---- MODULE Spec2Model ----
(***************************************************************************)
(* A model of the MetaMask Advanced Permissions SDK entry points           *)
(*   redeemPermission          (src/core/redeem.ts)                        *)
(*   autoRedeem                (src/core/redeem-auto.ts)                   *)
(*   requestAdvancedPermission (src/unnamed/part_003, core/permission.ts)  *)
(* One behaviour is one call of one entry point.  A JavaScript object is a *)
(* function from its own keys to values: an absent key is an undefined     *)
(* property.  Every await of caller code (a hook, customRedeem, the wallet,*)
(* fetch) is two steps, the invocation and its settlement, and both are    *)
(* appended to log.                                                        *)
(***************************************************************************)
EXTENDS Integers, Sequences, FiniteSets, TLC

VARIABLES
    fn,        \* the entry point that was called, "idle" before the call
    pc,        \* the position of the call inside the entry point
    options,   \* the options object the caller passed
    request,   \* the local variable request (redeemData in autoRedeem)
    tx,        \* autoRedeem: txData / finalData, or tx / txRequest
    result,    \* the local variable result (the strategy's result)
    error,     \* the error caught by the catch block
    client,    \* requestAdvancedPermission: the walletClient of the call
    params,    \* requestAdvancedPermission: permissionWithDefaults
    userAddress, \* requestAdvancedPermission: the resolved user address
    outcome,   \* how the call ended: pending, returned a value, raised an error
    log        \* the invocations and settlements of caller code, in order

vars == <<fn, pc, options, request, tx, result, error, client, params, userAddress, outcome, log>>

-----------------------------------------------------------------------------
(* JavaScript values *)

EmptyObj == [k \in {} |-> TRUE]
Undefined == [kind |-> "undefined"]
Null == [kind |-> "null"]

\* an optional property: present with value v, or absent
Opt(cond, k, v) == IF cond THEN k :> v ELSE EmptyObj
\* the choices for an optional input drawn from S: absent ({}) or one value
Maybe(S) == {{}} \cup {{x} : x \in S}
The(c) == CHOOSE x \in c : TRUE
OptIn(k, c) == IF c = {} THEN EmptyObj ELSE k :> The(c)

Has(o, k) == k \in DOMAIN o
\* !!o[k] for a string property and for a number property
TruthyStr(o, k) == Has(o, k) /\ o[k] # ""
TruthyNum(o, k) == Has(o, k) /\ o[k] # 0
\* s.startsWith('0x') over the strings the inputs are drawn from
StartsWith0x(s) == Len(s) >= 2 /\ SubSeq(s, 1, 2) = "0x"

\* Number(s) for a string of the characters 0-9 . + - (the inputs hold no
\* exponent, hex, Infinity or blank): "" is 0, a StrDecimalLiteral is its
\* value, anything else is NaN.  Only the sign of the value is kept.
Char(s, i) == SubSeq(s, i, i)
Digits == {"0", "1", "2", "3", "4", "5", "6", "7", "8", "9"}
Unsigned(s) ==
    IF Len(s) > 0 /\ Char(s, 1) \in {"-", "+"} THEN SubSeq(s, 2, Len(s)) ELSE s
IsNaN(s) ==
    LET u == Unsigned(s)
        dots == {i \in 1..Len(u) : Char(u, i) = "."}
        digs == {i \in 1..Len(u) : Char(u, i) \in Digits}
    IN  s # "" /\ ~(/\ Cardinality(dots) <= 1
                   /\ Cardinality(digs) >= 1
                   /\ Cardinality(dots) + Cardinality(digs) = Len(u))
IsZero(s) ==
    ~IsNaN(s) /\ \A i \in 1..Len(s) : Char(s, i) \in Digits => Char(s, i) = "0"
IsNegative(s) == ~IsNaN(s) /\ ~IsZero(s) /\ Char(s, 1) = "-"
\* Number(s) <= 0 and Number(s) < 0; a comparison with NaN is false
\* a faulty variant of NumberLeqZero: Number(s) < 0, which lets zero through
NumberLeqZero_Strict(s) == IsNegative(s)
NumberLeqZero(s) == IsZero(s) \/ IsNegative(s)
NumberLtZero(s) == IsNegative(s)

\* ---- string helpers ----
DigitSeq == <<"0", "1", "2", "3", "4", "5", "6", "7", "8", "9">>
DigitVal(c) == (CHOOSE i \in 1..Len(DigitSeq) : DigitSeq[i] = c) - 1

RECURSIVE Repeat(_, _)
Repeat(c, n) == IF n <= 0 THEN "" ELSE c \o Repeat(c, n - 1)
padStart(s, n, c) == Repeat(c, n - Len(s)) \o s
padEnd(s, n, c) == s \o Repeat(c, n - Len(s))
\* s.replace(/(0+)$/, '')
RECURSIVE TrimEnd0(_)
TrimEnd0(s) ==
    IF Len(s) > 0 /\ Char(s, Len(s)) = "0"
    THEN TrimEnd0(SubSeq(s, 1, Len(s) - 1)) ELSE s
RECURSIVE TrimStart0(_)
TrimStart0(s) ==
    IF Len(s) > 1 /\ Char(s, 1) = "0" THEN TrimStart0(SubSeq(s, 2, Len(s))) ELSE s
\* BigInt(s).toString() for a string of digits; BigInt("") is 0n
BigIntStr(s) == IF s = "" THEN "0" ELSE TrimStart0(s)
\* the digits of s + 1 (one digit longer when s is all nines)
RECURSIVE Inc(_)
Inc(s) ==
    IF s = "" THEN "1"
    ELSE IF Char(s, Len(s)) = "9" THEN Inc(SubSeq(s, 1, Len(s) - 1)) \o "0"
    ELSE SubSeq(s, 1, Len(s) - 1) \o DigitSeq[DigitVal(Char(s, Len(s))) + 2]
\* `${BigInt(s) + 1n}`
PlusOne(s) == BigIntStr(Inc(s))

\* ---- parseUnits of viem, the Amount Converter the engine calls ----
\* A bigint is kept as its decimal string.

DotsOf(s) == {i \in 1..Len(s) : Char(s, i) = "."}
\* /^(-?)([0-9]*)\.?([0-9]*)$/.test(value)
IsDecimalNumber(value) ==
    LET u == IF Len(value) > 0 /\ Char(value, 1) = "-"
             THEN SubSeq(value, 2, Len(value)) ELSE value
    IN  /\ Cardinality(DotsOf(u)) <= 1
        /\ \A i \in 1..Len(u) : Char(u, i) \in Digits \cup {"."}

\* Math.round(Number(`${unit}.${right}`)) rounds up, and so does
\* Math.round(Number(`.${fraction}`)): right carries no trailing zero
RoundsUp(right) == right # "" /\ DigitVal(Char(right, 1)) >= 5

\* let [integer, fraction = '0'] = value.split('.')
SplitAt(value, dot) ==
    [ integer |-> IF dot = 0 THEN value ELSE SubSeq(value, 1, dot - 1),
      fraction |-> IF dot = 0 THEN "0" ELSE SubSeq(value, dot + 1, Len(value)) ]
SplitDot(value) ==
    SplitAt(value, IF DotsOf(value) = {} THEN 0 ELSE CHOOSE i \in DotsOf(value) : TRUE)

\* the fraction of more than decimals digits rounded at its digit decimals:
\* left, unit and right are its slices; the result may be one digit too long
RoundedDigit(unit, right) == DigitVal(unit) + (IF RoundsUp(right) THEN 1 ELSE 0)
JoinRounded(left, rounded) ==
    IF rounded > 9
    THEN padStart(PlusOne(left) \o "0", Len(left) + 1, "0")
    ELSE left \o DigitSeq[rounded + 1]
RoundFraction(fraction, decimals) ==
    JoinRounded(SubSeq(fraction, 1, decimals - 1),
                RoundedDigit(SubSeq(fraction, decimals, decimals),
                             SubSeq(fraction, decimals + 1, Len(fraction))))

\* the integer and fraction digits once the fraction is cut to decimals digits
CutRounded(integer, rounded, decimals) ==
    IF Len(rounded) > decimals
    THEN PlusOne(integer) \o SubSeq(rounded, 2, decimals + 1)
    ELSE integer \o SubSeq(rounded, 1, decimals)
ScaleDigits(integer, fraction, decimals) ==
    IF decimals = 0
    THEN (IF RoundsUp(fraction) THEN PlusOne(integer) ELSE integer)
    ELSE IF Len(fraction) > decimals
    THEN CutRounded(integer, RoundFraction(fraction, decimals), decimals)
    ELSE integer \o padEnd(fraction, decimals, "0")

\* BigInt(`${negative ? '-' : ''}${integer}${fraction}`)
ToBigInt(negative, digits) ==
    IF digits = "" /\ negative THEN [throws |-> "SyntaxError"]
    ELSE IF negative /\ BigIntStr(digits) # "0"
    THEN [value |-> "-" \o BigIntStr(digits)]
    ELSE [value |-> BigIntStr(digits)]

parseSplit(integer, fraction, decimals) ==
    IF Len(integer) > 0 /\ Char(integer, 1) = "-"
    THEN ToBigInt(TRUE, ScaleDigits(SubSeq(integer, 2, Len(integer)),
                                    TrimEnd0(fraction), decimals))
    ELSE ToBigInt(FALSE, ScaleDigits(integer, TrimEnd0(fraction), decimals))

\* parseUnits(value, decimals): [throws |-> the error's name] or
\* [value |-> the bigint]
parseUnits(value, decimals) ==
    IF ~IsDecimalNumber(value) THEN [throws |-> "InvalidDecimalNumberError"]
    ELSE parseSplit(SplitDot(value).integer, SplitDot(value).fraction, decimals)

-----------------------------------------------------------------------------
(* Errors: src/index.ts 33-59 *)

InvalidPermissionConfigError(message) ==
    [name |-> "InvalidPermissionConfigError", message |-> message]
UserRejectedError(message) ==
    [name |-> "UserRejectedError", message |-> message]
\* new Error(message)
PlainError(message) == [name |-> "Error", message |-> message]

\* what a strategy or the wallet (customRedeem, fetch, sendTransaction,
\* requestExecutionPermissions, requestAddresses) may throw: an ordinary
\* error, or a provider error carrying code 4001
ThrownErrors ==
    { [name |-> "Error", message |-> <<"boom">>],
      [name |-> "ProviderRpcError", message |-> <<"User denied">>, code |-> 4001] }
\* what a hook may throw
HookErrors == { [name |-> "Error", message |-> <<"hook failed">>] }

\* error?.code === 4001
HasCode4001(e) == Has(e, "code") /\ e.code = 4001

IsConfigError(e) == e.name = "InvalidPermissionConfigError"

-----------------------------------------------------------------------------
(* The log of caller code the engine invokes *)

Call(op, arg) == [op |-> op, ph |-> "call", arg |-> arg]
Settle(op, how, val) == [op |-> op, ph |-> how, arg |-> val]

Calls(op) == {i \in 1..Len(log) : log[i].op = op /\ log[i].ph = "call"}
Settled(op) == {i \in 1..Len(log) : log[i].op = op /\ log[i].ph # "call"}
NumCalls(op) == Cardinality(Calls(op))

Pending == [kind |-> "pending"]
Returned(v) == [kind |-> "returned", value |-> v]
Raised(e) == [kind |-> "raised", error |-> e]

-----------------------------------------------------------------------------
(* Supported chains: src/unnamed/part_000 118-152 *)

SUPPORTED_CHAIN_IDS ==
    { 42161, 8453, 80084, 56, 5115, 1, 100, 10143, 10, 137, 250, 130,
      421614, 84532, 80085, 97, 10200, 127127, 43111, 11155420, 80002,
      11155111, 64165, 1301 }

\* a faulty variant of isSupportedChain: every positive chain id is accepted
isSupportedChain_Unchecked(chainId) == chainId > 0
isSupportedChain(chainId) == chainId \in SUPPORTED_CHAIN_IDS

-----------------------------------------------------------------------------
(* redeemPermission: src/core/redeem.ts *)

NoError == [name |-> "none"]

\* ensureRedeemConfig, lines 49-82: the error it throws, or NoError
ensureRedeemConfig(o) ==
    IF ~TruthyStr(o, "permissionsContext")
    THEN InvalidPermissionConfigError(<<"permissionsContext is required">>)
    ELSE IF ~TruthyStr(o, "recipient") \/ ~StartsWith0x(o.recipient)
    THEN InvalidPermissionConfigError(<<"recipient must be a valid Ethereum address">>)
    ELSE IF ~TruthyStr(o, "amount") \/ NumberLeqZero(o.amount)
    THEN InvalidPermissionConfigError(<<"amount must be greater than zero">>)
    ELSE IF ~TruthyStr(o, "permissionType")
    THEN InvalidPermissionConfigError(<<"permissionType is required">>)
    ELSE IF o.permissionType = "erc20-token-periodic" /\ ~TruthyStr(o, "tokenAddress")
    THEN InvalidPermissionConfigError(<<"tokenAddress is required for erc20-token-periodic">>)
    ELSE IF o.permissionType = "erc20-token-periodic" /\ ~Has(o, "tokenDecimals")
    THEN InvalidPermissionConfigError(<<"tokenDecimals is required for erc20-token-periodic">>)
    ELSE IF TruthyNum(o, "chainId") /\ ~isSupportedChain(o.chainId)
    THEN InvalidPermissionConfigError(
             <<"Chain ID ", ToString(o.chainId),
               " is not supported for ERC-7715 Advanced Permissions">>)
    ELSE NoError

\* const hooks = options.hooks || {}
HooksOf(o) == IF Has(o, "hooks") THEN o.hooks ELSE EmptyObj

\* a faulty variant of buildRedeemRequest: tokenDecimals is added only when
\* truthy, so 0 decimals is dropped
buildRedeemRequest_Truthy(o) ==
    [ permissionsContext |-> o.permissionsContext,
      recipient |-> o.recipient,
      amount |-> o.amount,
      permissionType |-> o.permissionType ]
    @@ Opt(TruthyStr(o, "tokenAddress"), "tokenAddress", o.tokenAddress)
    @@ Opt(TruthyNum(o, "tokenDecimals"), "tokenDecimals", o.tokenDecimals)
    @@ Opt(TruthyStr(o, "sessionAccountAddress"), "sessionAccountAddress",
           o.sessionAccountAddress)
    @@ Opt(TruthyNum(o, "chainId"), "chainId", o.chainId)

\* lines 99-110: the request object built from the options
buildRedeemRequest(o) ==
    [ permissionsContext |-> o.permissionsContext,
      recipient |-> o.recipient,
      amount |-> o.amount,
      permissionType |-> o.permissionType ]
    @@ Opt(TruthyStr(o, "tokenAddress"), "tokenAddress", o.tokenAddress)
    @@ Opt(Has(o, "tokenDecimals"), "tokenDecimals", o.tokenDecimals)
    @@ Opt(TruthyStr(o, "sessionAccountAddress"), "sessionAccountAddress",
           o.sessionAccountAddress)
    @@ Opt(TruthyNum(o, "chainId"), "chainId", o.chainId)

\* a faulty variant of applyHookResult: result || payload, which also drops
\* a falsy result such as 0
applyHookResult_Or(res, payload) ==
    IF res \in {Undefined, Null, [kind |-> "number", value |-> 0]} THEN payload ELSE res

\* applyHook's continuation, line 89 (and part_003 line 201): result ?? payload
applyHookResult(res, payload) ==
    IF res = Undefined \/ res = Null THEN payload ELSE res

\* a faulty variant of SelectStrategy: the backend endpoint is tried first
SelectStrategy_BackendFirst(o) ==
    IF TruthyStr(o, "backendEndpoint") THEN "backend"
    ELSE IF Has(o, "customRedeem") THEN "custom"
    ELSE "prepared"

\* the strategy lines 116-156 select: customRedeem, then backendEndpoint
SelectStrategy(o) ==
    IF Has(o, "customRedeem") THEN "custom"
    ELSE IF TruthyStr(o, "backendEndpoint") THEN "backend"
    ELSE "prepared"

\* a faulty variant of PreparedResult: nothing submitted is reported as a failure
PreparedResult_Failed(req) ==
    [ success |-> FALSE,
      redeemRequest |-> req,
      message |-> "Redeem request prepared. Use customRedeem or backendEndpoint to submit." ]

\* lines 149-153: the result of a call that submits nothing
PreparedResult(req) ==
    [ success |-> TRUE,
      redeemRequest |-> req,
      message |-> "Redeem request prepared. Use customRedeem or backendEndpoint to submit." ]

\* a faulty variant of redeemCaught: the rejection is not wrapped
redeemCaught_Unwrapped(e) == e

\* lines 158-164: the error the catch block hands to onError and re-throws
redeemCaught(e) ==
    IF HasCode4001(e) THEN UserRejectedError(<<"User rejected the redemption.">>)
    ELSE e

\* lines 132-141: the error thrown for a response that is not ok
NotJson == [kind |-> "not-json"]
FirstTruthy(body, keys, dflt) ==
    IF \E i \in 1..Len(keys) : TruthyStr(body, keys[i])
    THEN body[keys[CHOOSE i \in 1..Len(keys) :
                   /\ TruthyStr(body, keys[i])
                   /\ \A j \in 1..(i - 1) : ~TruthyStr(body, keys[j])]]
    ELSE dflt
redeemHttpError(resp) ==
    IF resp.body = NotJson
    THEN PlainError(<<"HTTP ", ToString(resp.status), ": ", resp.statusText>>)
    ELSE PlainError(<<FirstTruthy(resp.body, <<"error", "message", "details">>,
                                  "Failed to redeem permission")>>)

\* ---- inputs of redeemPermission ----

PermissionTypes ==
    { "native-token-periodic", "erc20-token-periodic",
      "native-token-stream", "erc20-token-stream" }

RedeemHookNames == {"beforeBuild", "beforeRequest", "afterRequest", "onError"}
\* an object holding a function under each of the names hs
HooksObj(hs) == [h \in hs |-> "function"]

\* the data properties of the options: every combination of absent, invalid
\* and valid values
RedeemData ==
    { OptIn("permissionsContext", ctx) @@ OptIn("recipient", rcp)
      @@ OptIn("amount", amt) @@ OptIn("permissionType", pt)
      @@ OptIn("tokenAddress", ta) @@ OptIn("tokenDecimals", td)
      @@ OptIn("chainId", cid) @@ OptIn("sessionAccountAddress", sa) :
        ctx \in Maybe({"0xctx"}), rcp \in Maybe({"bob", "0xR"}),
        amt \in Maybe({"0", "1"}), pt \in Maybe(PermissionTypes),
        ta \in Maybe({"0xT"}), td \in Maybe({0, 6}),
        cid \in Maybe({0, 1, 999}), sa \in Maybe({"", "0xS"}) }

\* the properties that steer the call: hooks, backendEndpoint, customRedeem
RedeemFlows ==
    { OptIn("backendEndpoint", be) @@ OptIn("customRedeem", cr)
      @@ Opt(hs # {}, "hooks", HooksObj(hs)) :
        be \in Maybe({"", "/api/redeem"}), cr \in Maybe({"function"}),
        hs \in SUBSET RedeemHookNames }

RedeemDataSamples ==
    { [ permissionsContext |-> "0xctx", recipient |-> "0xR", amount |-> "1",
        permissionType |-> "native-token-periodic" ],
      [ permissionsContext |-> "0xctx", recipient |-> "0xR", amount |-> "1",
        permissionType |-> "erc20-token-periodic", tokenAddress |-> "0xT",
        tokenDecimals |-> 6, chainId |-> 1, sessionAccountAddress |-> "0xS" ] }

\* one data object for each way the validation fails
RedeemInvalidSamples ==
    { [ recipient |-> "0xR", amount |-> "1", permissionType |-> "native-token-periodic" ],
      [ permissionsContext |-> "0xctx", recipient |-> "bob", amount |-> "1",
        permissionType |-> "native-token-periodic" ],
      [ permissionsContext |-> "0xctx", recipient |-> "0xR", amount |-> "0",
        permissionType |-> "native-token-periodic" ],
      [ permissionsContext |-> "0xctx", recipient |-> "0xR", amount |-> "1" ],
      [ permissionsContext |-> "0xctx", recipient |-> "0xR", amount |-> "1",
        permissionType |-> "erc20-token-periodic", tokenDecimals |-> 6 ],
      [ permissionsContext |-> "0xctx", recipient |-> "0xR", amount |-> "1",
        permissionType |-> "erc20-token-periodic", tokenAddress |-> "0xT" ],
      [ permissionsContext |-> "0xctx", recipient |-> "0xR", amount |-> "1",
        permissionType |-> "native-token-periodic", chainId |-> 999 ] }

\* one flow without hooks for each strategy
RedeemFlowSamples ==
    { EmptyObj, [backendEndpoint |-> "/api/redeem"], [customRedeem |-> "function"] }

\* the calls checked: every data combination on the sample flows, and every
\* flow on the sample data (the data reach the flow only through the
\* validation and the request)
RedeemOptions ==
    { d @@ f : d \in RedeemData, f \in RedeemFlowSamples }
    \cup { d @@ f : d \in RedeemDataSamples \cup RedeemInvalidSamples, f \in RedeemFlows }

\* what a beforeBuild / beforeRequest hook may resolve to
Zero == [kind |-> "number", value |-> 0]
Replacement == [replaced |-> TRUE]
HookReturns == {Undefined, Null, Zero, Replacement}

\* what customRedeem may resolve to, and the JSON body of a 2xx response
StrategyResults ==
    { [success |-> TRUE, transactionHash |-> "0xhash"],
      [success |-> FALSE, message |-> "insufficient allowance"] }

\* the responses fetch may resolve to
Responses ==
    { [ok |-> TRUE, status |-> 200, statusText |-> "OK", body |-> b] :
        b \in StrategyResults \cup {NotJson} }
    \cup
    { [ok |-> FALSE, status |-> 500, statusText |-> "Internal Server Error", body |-> b] :
        b \in { NotJson, EmptyObj, [error |-> "E"], [message |-> "M"],
                [details |-> "D"], [error |-> "", message |-> "M", details |-> "D"] } }

\* ---- the steps of redeemPermission ----

\* lines 92-110: validation (outside the try block), then the request is built
redeemPermission_Call ==
    /\ fn = "idle"
    /\ \E o \in RedeemOptions :
         /\ options' = o
         /\ fn' = "redeemPermission"
         /\ IF ensureRedeemConfig(o) # NoError
            THEN /\ outcome' = Raised(ensureRedeemConfig(o))
                 /\ pc' = "done"
                 /\ UNCHANGED request
            ELSE /\ request' = buildRedeemRequest(o)
                 /\ pc' = "beforeBuild"
                 /\ UNCHANGED outcome
    /\ UNCHANGED <<tx, result, error, client, params, userAddress, log>>

\* applyHook, lines 84-90: the hook is invoked with the payload, or skipped
redeemPermission_Hook(stage, next) ==
    /\ fn = "redeemPermission" /\ pc = stage
    /\ IF Has(HooksOf(options), stage)
       THEN /\ log' = Append(log, Call(stage, request))
            /\ pc' = stage \o "_wait"
       ELSE /\ pc' = next
            /\ UNCHANGED log
    /\ UNCHANGED <<fn, options, request, tx, result, error, client, params, userAddress, outcome>>

\* the hook's promise settles: result ?? payload, or the rejection is caught
redeemPermission_HookSettle(stage, next) ==
    /\ fn = "redeemPermission" /\ pc = stage \o "_wait"
    /\ \/ \E v \in HookReturns :
            /\ request' = applyHookResult(v, request)
            /\ log' = Append(log, Settle(stage, "resolve", v))
            /\ pc' = next
            /\ UNCHANGED error
       \/ \E e \in HookErrors :
            /\ error' = e
            /\ log' = Append(log, Settle(stage, "reject", e))
            /\ pc' = "catch"
            /\ UNCHANGED request
    /\ UNCHANGED <<fn, options, tx, result, client, params, userAddress, outcome>>

redeemPermission_BeforeBuild == redeemPermission_Hook("beforeBuild", "beforeRequest")
redeemPermission_BeforeBuildSettle == redeemPermission_HookSettle("beforeBuild", "beforeRequest")
redeemPermission_BeforeRequest == redeemPermission_Hook("beforeRequest", "dispatch")
redeemPermission_BeforeRequestSettle == redeemPermission_HookSettle("beforeRequest", "dispatch")

\* a faulty variant of redeemPermission_Dispatch: customRedeem is handed the
\* request the hooks left instead of the options
redeemPermission_Dispatch_Request ==
    /\ fn = "redeemPermission" /\ pc = "dispatch"
    /\ IF SelectStrategy(options) = "custom"
       THEN /\ log' = Append(log, Call("customRedeem", request))
            /\ pc' = "customRedeem_wait"
            /\ UNCHANGED result
       ELSE IF SelectStrategy(options) = "backend"
       THEN /\ log' = Append(log, Call("fetch",
                [url |-> options.backendEndpoint, method |-> "POST", body |-> request]))
            /\ pc' = "fetch_wait"
            /\ UNCHANGED result
       ELSE /\ result' = PreparedResult(request)
            /\ pc' = "afterRequest"
            /\ UNCHANGED log
    /\ UNCHANGED <<fn, options, request, tx, error, client, params, userAddress, outcome>>

\* lines 115-154: the strategy is chosen and started
redeemPermission_Dispatch ==
    /\ fn = "redeemPermission" /\ pc = "dispatch"
    /\ IF SelectStrategy(options) = "custom"
       THEN /\ log' = Append(log, Call("customRedeem", options))
            /\ pc' = "customRedeem_wait"
            /\ UNCHANGED result
       ELSE IF SelectStrategy(options) = "backend"
       THEN /\ log' = Append(log, Call("fetch",
                [url |-> options.backendEndpoint, method |-> "POST", body |-> request]))
            /\ pc' = "fetch_wait"
            /\ UNCHANGED result
       ELSE /\ result' = PreparedResult(request)
            /\ pc' = "afterRequest"
            /\ UNCHANGED log
    /\ UNCHANGED <<fn, options, request, tx, error, client, params, userAddress, outcome>>

\* a faulty variant of redeemPermission_CustomSettle: a result that reports
\* success false is thrown as an error
redeemPermission_CustomSettle_Checked ==
    /\ fn = "redeemPermission" /\ pc = "customRedeem_wait"
    /\ \/ \E r \in StrategyResults :
            /\ log' = Append(log, Settle("customRedeem", "resolve", r))
            /\ IF r.success
               THEN result' = r /\ pc' = "afterRequest" /\ UNCHANGED error
               ELSE /\ error' = PlainError(<<r.message>>)
                    /\ pc' = "catch" /\ UNCHANGED result
       \/ \E e \in ThrownErrors :
            /\ error' = e
            /\ log' = Append(log, Settle("customRedeem", "reject", e))
            /\ pc' = "catch"
            /\ UNCHANGED result
    /\ UNCHANGED <<fn, options, request, tx, client, params, userAddress, outcome>>

\* line 117: customRedeem's promise settles
redeemPermission_CustomSettle ==
    /\ fn = "redeemPermission" /\ pc = "customRedeem_wait"
    /\ \/ \E r \in StrategyResults :
            /\ result' = r
            /\ log' = Append(log, Settle("customRedeem", "resolve", r))
            /\ pc' = "afterRequest"
            /\ UNCHANGED error
       \/ \E e \in ThrownErrors :
            /\ error' = e
            /\ log' = Append(log, Settle("customRedeem", "reject", e))
            /\ pc' = "catch"
            /\ UNCHANGED result
    /\ UNCHANGED <<fn, options, request, tx, client, params, userAddress, outcome>>

\* a faulty variant of redeemPermission_FetchSettle: the body of a 2xx
\* response is wrapped instead of being the result
redeemPermission_FetchSettle_Wrapped ==
    /\ fn = "redeemPermission" /\ pc = "fetch_wait"
    /\ \/ \E resp \in Responses :
            /\ log' = Append(log, Settle("fetch", "resolve", resp))
            /\ IF ~resp.ok
               THEN error' = redeemHttpError(resp) /\ pc' = "catch" /\ UNCHANGED result
               ELSE IF resp.body = NotJson
               THEN /\ error' = [name |-> "SyntaxError", message |-> <<"Unexpected token">>]
                    /\ pc' = "catch" /\ UNCHANGED result
               ELSE /\ result' = [success |-> TRUE, data |-> resp.body]
                    /\ pc' = "afterRequest" /\ UNCHANGED error
       \/ \E e \in ThrownErrors :
            /\ error' = e
            /\ log' = Append(log, Settle("fetch", "reject", e))
            /\ pc' = "catch"
            /\ UNCHANGED result
    /\ UNCHANGED <<fn, options, request, tx, client, params, userAddress, outcome>>

\* lines 124-143: fetch settles; response.json() is read
redeemPermission_FetchSettle ==
    /\ fn = "redeemPermission" /\ pc = "fetch_wait"
    /\ \/ \E resp \in Responses :
            /\ log' = Append(log, Settle("fetch", "resolve", resp))
            /\ IF ~resp.ok
               THEN error' = redeemHttpError(resp) /\ pc' = "catch" /\ UNCHANGED result
               ELSE IF resp.body = NotJson
               THEN /\ error' = [name |-> "SyntaxError", message |-> <<"Unexpected token">>]
                    /\ pc' = "catch" /\ UNCHANGED result
               ELSE result' = resp.body /\ pc' = "afterRequest" /\ UNCHANGED error
       \/ \E e \in ThrownErrors :
            /\ error' = e
            /\ log' = Append(log, Settle("fetch", "reject", e))
            /\ pc' = "catch"
            /\ UNCHANGED result
    /\ UNCHANGED <<fn, options, request, tx, client, params, userAddress, outcome>>

\* a faulty variant of redeemPermission_AfterRequest: afterRequest is invoked
\* without being awaited, so the call returns while the hook is still running
redeemPermission_AfterRequest_Detached ==
    /\ fn = "redeemPermission" /\ pc = "afterRequest"
    /\ IF Has(HooksOf(options), "afterRequest")
       THEN log' = Append(log, Call("afterRequest", result))
       ELSE UNCHANGED log
    /\ outcome' = Returned(result)
    /\ pc' = "done"
    /\ UNCHANGED <<fn, options, request, tx, result, error, client, params, userAddress>>

\* lines 118-119, 144-145, 154-156: await hooks.afterRequest?.(result); return result
redeemPermission_AfterRequest ==
    /\ fn = "redeemPermission" /\ pc = "afterRequest"
    /\ IF Has(HooksOf(options), "afterRequest")
       THEN /\ log' = Append(log, Call("afterRequest", result))
            /\ pc' = "afterRequest_wait"
            /\ UNCHANGED outcome
       ELSE /\ outcome' = Returned(result)
            /\ pc' = "done"
            /\ UNCHANGED log
    /\ UNCHANGED <<fn, options, request, tx, result, error, client, params, userAddress>>

\* a faulty variant of redeemPermission_AfterRequestSettle: what afterRequest
\* resolves to replaces the result, as in applyHook
redeemPermission_AfterRequestSettle_Replacing ==
    /\ fn = "redeemPermission" /\ pc = "afterRequest_wait"
    /\ \/ \E v \in {Undefined, Replacement} :
            /\ log' = Append(log, Settle("afterRequest", "resolve", v))
            /\ outcome' = Returned(applyHookResult(v, result))
            /\ pc' = "done"
            /\ UNCHANGED error
       \/ \E e \in HookErrors :
            /\ error' = e
            /\ log' = Append(log, Settle("afterRequest", "reject", e))
            /\ pc' = "catch"
            /\ UNCHANGED outcome
    /\ UNCHANGED <<fn, options, request, tx, result, client, params, userAddress>>

redeemPermission_AfterRequestSettle ==
    /\ fn = "redeemPermission" /\ pc = "afterRequest_wait"
    /\ \/ \E v \in {Undefined, Replacement} :
            /\ log' = Append(log, Settle("afterRequest", "resolve", v))
            /\ outcome' = Returned(result)
            /\ pc' = "done"
            /\ UNCHANGED error
       \/ \E e \in HookErrors :
            /\ error' = e
            /\ log' = Append(log, Settle("afterRequest", "reject", e))
            /\ pc' = "catch"
            /\ UNCHANGED outcome
    /\ UNCHANGED <<fn, options, request, tx, result, client, params, userAddress>>

\* lines 157-164: the catch block
redeemPermission_Catch ==
    /\ fn = "redeemPermission" /\ pc = "catch"
    /\ error' = redeemCaught(error)
    /\ IF Has(HooksOf(options), "onError")
       THEN /\ log' = Append(log, Call("onError", redeemCaught(error)))
            /\ pc' = "onError_wait"
            /\ UNCHANGED outcome
       ELSE /\ outcome' = Raised(redeemCaught(error))
            /\ pc' = "done"
            /\ UNCHANGED log
    /\ UNCHANGED <<fn, options, request, tx, result, client, params, userAddress>>

\* a faulty variant of redeemPermission_OnErrorSettle: return hooks.onError?.(e),
\* so that what onError resolves to becomes the result of the call
redeemPermission_OnErrorSettle_Swallow ==
    /\ fn = "redeemPermission" /\ pc = "onError_wait"
    /\ \/ /\ log' = Append(log, Settle("onError", "resolve", Undefined))
          /\ outcome' = Returned(Undefined)
       \/ \E e \in HookErrors :
            /\ log' = Append(log, Settle("onError", "reject", e))
            /\ outcome' = Raised(e)
    /\ pc' = "done"
    /\ UNCHANGED <<fn, options, request, tx, result, error, client, params, userAddress>>

\* await hooks.onError?.(e) settles; throw e, unless onError itself threw
redeemPermission_OnErrorSettle ==
    /\ fn = "redeemPermission" /\ pc = "onError_wait"
    /\ \/ /\ log' = Append(log, Settle("onError", "resolve", Undefined))
          /\ outcome' = Raised(error)
       \/ \E e \in HookErrors :
            /\ log' = Append(log, Settle("onError", "reject", e))
            /\ outcome' = Raised(e)
    /\ pc' = "done"
    /\ UNCHANGED <<fn, options, request, tx, result, error, client, params, userAddress>>

redeemPermission ==
    \/ redeemPermission_Call
    \/ redeemPermission_BeforeBuild
    \/ redeemPermission_BeforeBuildSettle
    \/ redeemPermission_BeforeRequest
    \/ redeemPermission_BeforeRequestSettle
    \/ redeemPermission_Dispatch
    \/ redeemPermission_CustomSettle
    \/ redeemPermission_FetchSettle
    \/ redeemPermission_AfterRequest
    \/ redeemPermission_AfterRequestSettle
    \/ redeemPermission_Catch
    \/ redeemPermission_OnErrorSettle

-----------------------------------------------------------------------------
(* buildRedeemCallData: src/utils/redeem-call-data.ts *)

Throw(e) == [threw |-> TRUE, error |-> e]
Value(v) == [threw |-> FALSE, value |-> v]

zeroAddress == "0x0000000000000000000000000000000000000000"

\* encodeFunctionData, lines 55-66: the call and its arguments
encodeFunctionData(args) == [functionName |-> "redeemPermission", args |-> args]

\* lines 36-73: Throw(the error) or Value({to, data, value})
buildRedeemCallData(o) ==
    LET isErc20 == Has(o, "permissionType") /\ o.permissionType = "erc20-token-periodic"
        tokenDecimals == IF isErc20
                         THEN (IF Has(o, "tokenDecimals") THEN o.tokenDecimals ELSE 6)
                         ELSE 18
        tokenAddress == IF isErc20 /\ TruthyStr(o, "tokenAddress")
                        THEN o.tokenAddress ELSE zeroAddress
        amountParsed == parseUnits(o.amount, tokenDecimals)
    IN  IF ~TruthyStr(o, "delegationManager") \/ ~StartsWith0x(o.delegationManager)
        THEN Throw(InvalidPermissionConfigError(
                 <<"delegationManager address is required to build call data">>))
        ELSE IF isErc20 /\ ~TruthyStr(o, "tokenAddress")
        THEN Throw(InvalidPermissionConfigError(
                 <<"tokenAddress is required to build ERC-20 redeem call data">>))
        ELSE IF Has(amountParsed, "throws")
        THEN Throw([name |-> amountParsed.throws, message |-> <<o.amount>>])
        ELSE Value([ to |-> o.delegationManager,
                     data |-> encodeFunctionData(
                         << o.permissionsContext, o.recipient, amountParsed.value,
                            o.permissionType, tokenAddress, tokenDecimals >>),
                     value |-> IF Has(o, "valueWei") THEN o.valueWei ELSE "0" ])

-----------------------------------------------------------------------------
(* autoRedeem: src/core/redeem-auto.ts *)

\* lines 43-51: the error the validation throws, or NoError
autoRedeemValidate(o) ==
    IF ~TruthyStr(o, "permissionsContext")
    THEN InvalidPermissionConfigError(<<"permissionsContext is required">>)
    ELSE IF ~TruthyStr(o, "recipient") \/ ~StartsWith0x(o.recipient)
    THEN InvalidPermissionConfigError(<<"recipient must be a valid Ethereum address">>)
    ELSE IF ~TruthyStr(o, "amount") \/ NumberLeqZero(o.amount)
    THEN InvalidPermissionConfigError(<<"amount must be greater than zero">>)
    ELSE NoError

\* line 56: options.permissionType || 'native-token-periodic'
autoPermissionType(o) ==
    IF TruthyStr(o, "permissionType") THEN o.permissionType ELSE "native-token-periodic"

\* lines 59-68
buildRedeemData(o) ==
    [ permissionsContext |-> o.permissionsContext,
      recipient |-> o.recipient,
      amount |-> o.amount,
      permissionType |-> autoPermissionType(o) ]
    @@ Opt(TruthyStr(o, "tokenAddress"), "tokenAddress", o.tokenAddress)
    @@ Opt(Has(o, "tokenDecimals"), "tokenDecimals", o.tokenDecimals)

\* a payload value is an object unless it is undefined, null or a number
IsObject(v) == ~Has(v, "kind")
Truthy(v) == v \notin {Undefined, Null, Zero}
\* {...v}
Spread(v) == IF IsObject(v) THEN v ELSE EmptyObj

\* lines 71, 84, 122: await (hook?.(payload) || Promise.resolve(payload)).
\* A hook that returns v itself keeps the payload when v is falsy; a hook that
\* returns a promise (always truthy) replaces the payload by what it resolves to
autoHookResult(mode, v, payload) ==
    IF mode = "return" THEN (IF Truthy(v) THEN v ELSE payload) ELSE v

\* a faulty variant of autoUsesBackend: a wallet client always wins
autoUsesBackend_WalletFirst(o) == ~Has(o, "walletClient")
\* line 74: the backend path is taken
autoUsesBackend(o) == TruthyStr(o, "backendEndpoint") \/ ~Has(o, "walletClient")
\* line 76
autoEndpoint(o) ==
    IF TruthyStr(o, "backendEndpoint") THEN o.backendEndpoint ELSE "/api/redeem"

\* lines 94-103: the error thrown for a response that is not ok
autoHttpError(resp) ==
    IF resp.body = NotJson
    THEN PlainError(<<"HTTP ", ToString(resp.status)>>)
    ELSE PlainError(<<FirstTruthy(resp.body, <<"error", "message">>,
                                  "Failed to redeem permission")>>)

\* ---- inputs of autoRedeem ----

AutoHookNames == {"beforeBuild", "beforeSubmit", "afterSubmit", "onError"}

AutoData ==
    { OptIn("permissionsContext", ctx) @@ OptIn("recipient", rcp)
      @@ OptIn("amount", amt) @@ OptIn("permissionType", pt)
      @@ OptIn("tokenAddress", ta) @@ OptIn("tokenDecimals", td)
      @@ OptIn("valueWei", vw) :
        ctx \in Maybe({"0xctx"}), rcp \in Maybe({"bob", "0xR"}),
        amt \in Maybe({"0", "1", "abc", "1.0000001"}), pt \in Maybe(PermissionTypes),
        ta \in Maybe({"0xT"}), td \in Maybe({0, 6}), vw \in Maybe({"5"}) }

AutoFlows ==
    { OptIn("walletClient", wc) @@ OptIn("backendEndpoint", be)
      @@ OptIn("delegationManager", dm) @@ Opt(hs # {}, "hooks", HooksObj(hs)) :
        wc \in Maybe({"walletClient"}), be \in Maybe({"", "/api/redeem"}),
        dm \in Maybe({"dm", "0xDM"}), hs \in SUBSET AutoHookNames }

AutoDataSamples ==
    { [ permissionsContext |-> "0xctx", recipient |-> "0xR", amount |-> "1" ],
      [ permissionsContext |-> "0xctx", recipient |-> "0xR", amount |-> "1",
        permissionType |-> "erc20-token-periodic", tokenAddress |-> "0xT",
        tokenDecimals |-> 6 ] }

AutoInvalidSamples ==
    { [ recipient |-> "0xR", amount |-> "1" ],
      [ permissionsContext |-> "0xctx", recipient |-> "bob", amount |-> "1" ],
      [ permissionsContext |-> "0xctx", amount |-> "1" ],
      [ permissionsContext |-> "0xctx", recipient |-> "0xR", amount |-> "0" ],
      [ permissionsContext |-> "0xctx", recipient |-> "0xR" ] }

\* one flow without hooks for each path
AutoFlowSamples ==
    { EmptyObj, [walletClient |-> "walletClient", delegationManager |-> "0xDM"] }

AutoOptions ==
    { d @@ f : d \in AutoData, f \in AutoFlowSamples }
    \cup { d @@ f : d \in AutoDataSamples \cup AutoInvalidSamples, f \in AutoFlows }

\* Date.now()
Timestamps == {1700000000}
\* what sendTransaction may resolve to
TxHashes == {"0xhash"}

\* ---- the steps of autoRedeem ----

\* lines 41-68: validation (outside the try block), then redeemData is built
autoRedeem_Call ==
    /\ fn = "idle"
    /\ \E o \in AutoOptions :
         /\ options' = o
         /\ fn' = "autoRedeem"
         /\ IF autoRedeemValidate(o) # NoError
            THEN /\ outcome' = Raised(autoRedeemValidate(o))
                 /\ pc' = "done"
                 /\ UNCHANGED request
            ELSE /\ request' = buildRedeemData(o)
                 /\ pc' = "beforeBuild"
                 /\ UNCHANGED outcome
    /\ UNCHANGED <<tx, result, error, client, params, userAddress, log>>

\* line 71: hooks.beforeBuild?.(redeemData)
autoRedeem_BeforeBuild ==
    /\ fn = "autoRedeem" /\ pc = "beforeBuild"
    /\ IF Has(HooksOf(options), "beforeBuild")
       THEN /\ log' = Append(log, Call("beforeBuild", request))
            /\ pc' = "beforeBuild_wait"
       ELSE /\ pc' = "route"
            /\ UNCHANGED log
    /\ UNCHANGED <<fn, options, request, tx, result, error, client, params, userAddress, outcome>>

autoRedeem_BeforeBuildSettle ==
    /\ fn = "autoRedeem" /\ pc = "beforeBuild_wait"
    /\ \/ \E mode \in {"return", "resolve"} :
          \E v \in IF mode = "return" THEN {Undefined, Zero, Replacement}
                   ELSE {Undefined, Replacement} :
            /\ request' = autoHookResult(mode, v, request)
            /\ log' = Append(log, Settle("beforeBuild", mode, v))
            /\ pc' = "route"
            /\ UNCHANGED error
       \/ \E e \in HookErrors :
            /\ error' = e
            /\ log' = Append(log, Settle("beforeBuild", "reject", e))
            /\ pc' = "catch"
            /\ UNCHANGED request
    /\ UNCHANGED <<fn, options, tx, result, client, params, userAddress, outcome>>

\* lines 74-81 and 111-120: the path is chosen; txData or tx is built
autoRedeem_Route ==
    /\ fn = "autoRedeem" /\ pc = "route"
    /\ IF autoUsesBackend(options)
       THEN /\ \E now \in Timestamps : tx' = ("timestamp" :> now) @@ Spread(request)
            /\ pc' = "backend_beforeSubmit"
            /\ UNCHANGED error
       ELSE IF ~TruthyStr(options, "delegationManager")
       THEN /\ error' = InvalidPermissionConfigError(
                            <<"delegationManager is required for wallet-based redeem">>)
            /\ pc' = "catch"
            /\ UNCHANGED tx
       ELSE LET built == buildRedeemCallData(
                             ("permissionType" :> autoPermissionType(options)) @@ options)
            IN  IF built.threw
                THEN error' = built.error /\ pc' = "catch" /\ UNCHANGED tx
                ELSE tx' = built.value /\ pc' = "wallet_beforeSubmit" /\ UNCHANGED error
    /\ UNCHANGED <<fn, options, request, result, client, params, userAddress, outcome, log>>

\* lines 84 and 122: hooks.beforeSubmit?.(txData) / hooks.beforeSubmit?.(tx)
autoRedeem_BeforeSubmit(path) ==
    /\ fn = "autoRedeem" /\ pc = path \o "_beforeSubmit"
    /\ IF Has(HooksOf(options), "beforeSubmit")
       THEN /\ log' = Append(log, Call("beforeSubmit", tx))
            /\ pc' = path \o "_beforeSubmit_wait"
       ELSE /\ pc' = path \o "_submit"
            /\ UNCHANGED log
    /\ UNCHANGED <<fn, options, request, tx, result, error, client, params, userAddress, outcome>>

autoRedeem_BeforeSubmitSettle(path) ==
    /\ fn = "autoRedeem" /\ pc = path \o "_beforeSubmit_wait"
    /\ \/ \E mode \in {"return", "resolve"} :
          \E v \in IF mode = "return" THEN {Undefined, Zero, Replacement}
                   ELSE {Undefined, Replacement} :
            /\ tx' = autoHookResult(mode, v, tx)
            /\ log' = Append(log, Settle("beforeSubmit", mode, v))
            /\ pc' = path \o "_submit"
            /\ UNCHANGED error
       \/ \E e \in HookErrors :
            /\ error' = e
            /\ log' = Append(log, Settle("beforeSubmit", "reject", e))
            /\ pc' = "catch"
            /\ UNCHANGED tx
    /\ UNCHANGED <<fn, options, request, result, client, params, userAddress, outcome>>

autoRedeem_BackendBeforeSubmit == autoRedeem_BeforeSubmit("backend")
autoRedeem_BackendBeforeSubmitSettle == autoRedeem_BeforeSubmitSettle("backend")
autoRedeem_WalletBeforeSubmit == autoRedeem_BeforeSubmit("wallet")
autoRedeem_WalletBeforeSubmitSettle == autoRedeem_BeforeSubmitSettle("wallet")

\* lines 86-92: fetch(endpoint, {method: 'POST', body: JSON.stringify(finalData)})
autoRedeem_Fetch ==
    /\ fn = "autoRedeem" /\ pc = "backend_submit"
    /\ log' = Append(log, Call("fetch",
           [url |-> autoEndpoint(options), method |-> "POST", body |-> tx]))
    /\ pc' = "fetch_wait"
    /\ UNCHANGED <<fn, options, request, tx, result, error, client, params, userAddress, outcome>>

\* lines 94-105
autoRedeem_FetchSettle ==
    /\ fn = "autoRedeem" /\ pc = "fetch_wait"
    /\ \/ \E resp \in Responses :
            /\ log' = Append(log, Settle("fetch", "resolve", resp))
            /\ IF ~resp.ok
               THEN error' = autoHttpError(resp) /\ pc' = "catch" /\ UNCHANGED result
               ELSE IF resp.body = NotJson
               THEN /\ error' = [name |-> "SyntaxError", message |-> <<"Unexpected token">>]
                    /\ pc' = "catch" /\ UNCHANGED result
               ELSE result' = resp.body /\ pc' = "afterSubmit" /\ UNCHANGED error
       \/ \E e \in ThrownErrors :
            /\ error' = e
            /\ log' = Append(log, Settle("fetch", "reject", e))
            /\ pc' = "catch"
            /\ UNCHANGED result
    /\ UNCHANGED <<fn, options, request, tx, client, params, userAddress, outcome>>

\* lines 124-128: reading txRequest.to of undefined throws a TypeError
autoRedeem_Send ==
    /\ fn = "autoRedeem" /\ pc = "wallet_submit"
    /\ IF ~IsObject(tx)
       THEN /\ error' = [name |-> "TypeError",
                         message |-> <<"Cannot read properties of undefined">>]
            /\ pc' = "catch"
            /\ UNCHANGED log
       ELSE /\ log' = Append(log, Call("sendTransaction",
                   Opt(Has(tx, "to"), "to", tx.to)
                   @@ Opt(Has(tx, "data"), "data", tx.data)
                   @@ Opt(Has(tx, "value"), "value", tx.value)))
            /\ pc' = "sendTransaction_wait"
            /\ UNCHANGED error
    /\ UNCHANGED <<fn, options, request, tx, result, client, params, userAddress, outcome>>

\* lines 124-135
autoRedeem_SendSettle ==
    /\ fn = "autoRedeem" /\ pc = "sendTransaction_wait"
    /\ \/ \E hash \in TxHashes :
            /\ result' = [ success |-> TRUE, redeemRequest |-> tx,
                           transactionHash |-> hash,
                           message |-> "Redemption transaction sent" ]
            /\ log' = Append(log, Settle("sendTransaction", "resolve", [hash |-> hash]))
            /\ pc' = "afterSubmit"
            /\ UNCHANGED error
       \/ \E e \in ThrownErrors :
            /\ error' = e
            /\ log' = Append(log, Settle("sendTransaction", "reject", e))
            /\ pc' = "catch"
            /\ UNCHANGED result
    /\ UNCHANGED <<fn, options, request, tx, client, params, userAddress, outcome>>

\* lines 106-107 and 137-138: await hooks.afterSubmit?.(result); return result
autoRedeem_AfterSubmit ==
    /\ fn = "autoRedeem" /\ pc = "afterSubmit"
    /\ IF Has(HooksOf(options), "afterSubmit")
       THEN /\ log' = Append(log, Call("afterSubmit", result))
            /\ pc' = "afterSubmit_wait"
            /\ UNCHANGED outcome
       ELSE /\ outcome' = Returned(result)
            /\ pc' = "done"
            /\ UNCHANGED log
    /\ UNCHANGED <<fn, options, request, tx, result, error, client, params, userAddress>>

autoRedeem_AfterSubmitSettle ==
    /\ fn = "autoRedeem" /\ pc = "afterSubmit_wait"
    /\ \/ \E v \in {Undefined} :
            /\ log' = Append(log, Settle("afterSubmit", "resolve", v))
            /\ outcome' = Returned(result)
            /\ pc' = "done"
            /\ UNCHANGED error
       \/ \E e \in HookErrors :
            /\ error' = e
            /\ log' = Append(log, Settle("afterSubmit", "reject", e))
            /\ pc' = "catch"
            /\ UNCHANGED outcome
    /\ UNCHANGED <<fn, options, request, tx, result, client, params, userAddress>>

\* lines 147-150: the catch block
autoRedeem_Catch ==
    /\ fn = "autoRedeem" /\ pc = "catch"
    /\ IF Has(HooksOf(options), "onError")
       THEN /\ log' = Append(log, Call("onError", error))
            /\ pc' = "onError_wait"
            /\ UNCHANGED outcome
       ELSE /\ outcome' = Raised(error)
            /\ pc' = "done"
            /\ UNCHANGED log
    /\ UNCHANGED <<fn, options, request, tx, result, error, client, params, userAddress>>

autoRedeem_OnErrorSettle ==
    /\ fn = "autoRedeem" /\ pc = "onError_wait"
    /\ \/ /\ log' = Append(log, Settle("onError", "resolve", Undefined))
          /\ outcome' = Raised(error)
       \/ \E e \in HookErrors :
            /\ log' = Append(log, Settle("onError", "reject", e))
            /\ outcome' = Raised(e)
    /\ pc' = "done"
    /\ UNCHANGED <<fn, options, request, tx, result, error, client, params, userAddress>>

autoRedeem ==
    \/ autoRedeem_Call
    \/ autoRedeem_BeforeBuild
    \/ autoRedeem_BeforeBuildSettle
    \/ autoRedeem_Route
    \/ autoRedeem_BackendBeforeSubmit
    \/ autoRedeem_BackendBeforeSubmitSettle
    \/ autoRedeem_WalletBeforeSubmit
    \/ autoRedeem_WalletBeforeSubmitSettle
    \/ autoRedeem_Fetch
    \/ autoRedeem_FetchSettle
    \/ autoRedeem_Send
    \/ autoRedeem_SendSettle
    \/ autoRedeem_AfterSubmit
    \/ autoRedeem_AfterSubmitSettle
    \/ autoRedeem_Catch
    \/ autoRedeem_OnErrorSettle

-----------------------------------------------------------------------------
(* requestAdvancedPermission: src/unnamed/part_003 (core/permission.ts) *)

\* s.includes(sub)
Includes(s, sub) ==
    \E i \in 1..(Len(s) - Len(sub) + 1) : SubSeq(s, i, i + Len(sub) - 1) = sub

\* Math.floor(Date.now() / 1000): src/utils/defaults.ts 5
CurrentTimes == {1700000000}
\* src/utils/defaults.ts 7-22
DEFAULT_PERMISSION_VALUES(now) ==
    [ amount |-> "1",
      periodDuration |-> 86400,
      amountPerSecond |-> "0.00001",
      initialAmount |-> "0.1",
      maxAmount |-> "1",
      startTime |-> now,
      expiry |-> now + 7 * 24 * 60 * 60,
      justification |-> "Permission to execute token transfers",
      isAdjustmentAllowed |-> TRUE ]

\* sepolia of viem/chains, part_003 line 92
defaultChain == [id |-> 11155111, name |-> "Sepolia"]

\* p[k] || dflt for a string and for a number property; p[k] ?? dflt
OrStr(p, k, dflt) == IF TruthyStr(p, k) THEN p[k] ELSE dflt
OrNum(p, k, dflt) == IF TruthyNum(p, k) THEN p[k] ELSE dflt
\* a faulty variant of Coalesce: tokenDecimals 0 counts as missing, as under ||
Coalesce_Or(p, k, dflt) ==
    IF Has(p, k) /\ ~(k = "tokenDecimals" /\ p[k] = 0) THEN p[k] ELSE dflt
Coalesce(p, k, dflt) == IF Has(p, k) THEN p[k] ELSE dflt

\* applyDefaults, lines 101-143: Throw(the error) or Value(the parameters)
applyDefaults(p, now) ==
    IF ~TruthyStr(p, "permissionType")
    THEN Throw(InvalidPermissionConfigError(<<"permissionType is required">>))
    ELSE
    LET D == DEFAULT_PERMISSION_VALUES(now)
        isNative == Includes(p.permissionType, "native")
        isPeriodic == Includes(p.permissionType, "periodic")
        isStream == Includes(p.permissionType, "stream")
        defaultAmount == IF isNative THEN "0.00001" ELSE "1"
        base == [ permissionType |-> p.permissionType,
                  tokenDecimals |-> Coalesce(p, "tokenDecimals", IF isNative THEN 18 ELSE 6),
                  expiry |-> OrNum(p, "expiry", D.expiry),
                  justification |-> OrStr(p, "justification", D.justification),
                  isAdjustmentAllowed |->
                      Coalesce(p, "isAdjustmentAllowed", D.isAdjustmentAllowed) ]
                @@ Opt(Has(p, "tokenAddress"), "tokenAddress", p.tokenAddress)
                @@ Opt(Has(p, "chain"), "chain", p.chain)
    IN  IF isPeriodic
        THEN Value(base
                   @@ [ amount |-> OrStr(p, "amount", defaultAmount),
                        periodDuration |-> OrNum(p, "periodDuration", D.periodDuration) ]
                   @@ Opt(Has(p, "startTime"), "startTime", p.startTime))
        ELSE IF isStream
        THEN Value(base
                   @@ [ amountPerSecond |-> OrStr(p, "amountPerSecond", D.amountPerSecond),
                        initialAmount |-> OrStr(p, "initialAmount", D.initialAmount),
                        maxAmount |-> OrStr(p, "maxAmount", D.maxAmount),
                        startTime |-> OrNum(p, "startTime", D.startTime) ])
        ELSE Throw(InvalidPermissionConfigError(
                 <<"Unknown permission type: ", p.permissionType>>))

\* params.chain || defaultChain
chainOf(p) == IF Has(p, "chain") THEN p.chain ELSE defaultChain

\* a faulty variant of ensureConfig: tokenDecimals is checked before
\* tokenAddress, and the chain next
ensureConfig_DecimalsFirst(p) ==
    IF ~Has(p, "tokenDecimals")
    THEN InvalidPermissionConfigError(<<"tokenDecimals is required">>)
    ELSE IF Includes(p.permissionType, "erc20") /\ ~TruthyStr(p, "tokenAddress")
    THEN InvalidPermissionConfigError(<<"tokenAddress is required for ERC-20 permissions">>)
    ELSE IF ~isSupportedChain(chainOf(p).id)
    THEN InvalidPermissionConfigError(<<"Chain ", chainOf(p).name>>)
    ELSE NoError

\* ensureConfig, lines 145-197: the error it throws, or NoError
ensureConfig(p) ==
    LET isErc20 == Includes(p.permissionType, "erc20")
        isPeriodic == Includes(p.permissionType, "periodic")
        isStream == Includes(p.permissionType, "stream")
    IN  IF isErc20 /\ ~TruthyStr(p, "tokenAddress")
        THEN InvalidPermissionConfigError(<<"tokenAddress is required for ERC-20 permissions">>)
        ELSE IF ~Has(p, "tokenDecimals")
        THEN InvalidPermissionConfigError(<<"tokenDecimals is required">>)
        ELSE IF isPeriodic /\ (~TruthyStr(p, "amount") \/ NumberLeqZero(p.amount))
        THEN InvalidPermissionConfigError(<<"amount must be greater than zero">>)
        ELSE IF isPeriodic /\ ~TruthyNum(p, "periodDuration")
        THEN InvalidPermissionConfigError(<<"periodDuration is required">>)
        ELSE IF isStream /\ (~TruthyStr(p, "amountPerSecond") \/ NumberLeqZero(p.amountPerSecond))
        THEN InvalidPermissionConfigError(<<"amountPerSecond must be greater than zero">>)
        ELSE IF isStream /\ (~TruthyStr(p, "initialAmount") \/ NumberLtZero(p.initialAmount))
        THEN InvalidPermissionConfigError(<<"initialAmount must be zero or greater">>)
        ELSE IF isStream /\ (~TruthyStr(p, "maxAmount") \/ NumberLeqZero(p.maxAmount))
        THEN InvalidPermissionConfigError(<<"maxAmount must be greater than zero">>)
        ELSE IF isStream /\ ~TruthyNum(p, "startTime")
        THEN InvalidPermissionConfigError(<<"startTime is required for stream permissions">>)
        ELSE IF ~TruthyNum(p, "expiry")
        THEN InvalidPermissionConfigError(<<"expiry is required">>)
        ELSE IF ~isSupportedChain(chainOf(p).id)
        THEN InvalidPermissionConfigError(
                 << "Chain ", chainOf(p).name, " (id: ", ToString(chainOf(p).id),
                    ") is not supported for ERC-7715 Advanced Permissions. ",
                    "Supported chains: Ethereum, Polygon, Arbitrum, Optimism, Base, BSC, Gnosis, and their testnets." >>)
        ELSE NoError

\* createSessionAccountFromAddress: src/examples/guides/permissions-stream.md 288-292
createSessionAccountFromAddress(address) == [address |-> address]

\* buildBaseRequest, lines 204-254: Throw(parseUnits' error) or Value(the request)
buildBaseRequest(p, sessionAccountAddress) ==
    LET isPeriodic == Includes(p.permissionType, "periodic")
        isStream == Includes(p.permissionType, "stream")
        decimals == Coalesce(p, "tokenDecimals",
                             IF Includes(p.permissionType, "native") THEN 18 ELSE 6)
        periodAmount == parseUnits(p.amount, decimals)
        amountPerSecond == parseUnits(p.amountPerSecond, decimals)
        initialAmount == parseUnits(p.initialAmount, decimals)
        maxAmount == parseUnits(p.maxAmount, decimals)
        failed == IF isPeriodic /\ Has(periodAmount, "throws") THEN <<p.amount, periodAmount>>
                  ELSE IF isStream /\ Has(amountPerSecond, "throws")
                  THEN <<p.amountPerSecond, amountPerSecond>>
                  ELSE IF isStream /\ Has(initialAmount, "throws")
                  THEN <<p.initialAmount, initialAmount>>
                  ELSE IF isStream /\ Has(maxAmount, "throws")
                  THEN <<p.maxAmount, maxAmount>>
                  ELSE << >>
        data == Opt(Has(p, "tokenAddress"), "tokenAddress", p.tokenAddress)
                @@ [justification |-> p.justification]
                @@ (IF isPeriodic
                    THEN [ periodAmount |-> periodAmount.value,
                           periodDuration |-> p.periodDuration ]
                         @@ Opt(TruthyNum(p, "startTime"), "startTime", p.startTime)
                    ELSE EmptyObj)
                @@ (IF isStream
                    THEN [ amountPerSecond |-> amountPerSecond.value,
                           initialAmount |-> initialAmount.value,
                           maxAmount |-> maxAmount.value ]
                         @@ Opt(Has(p, "startTime"), "startTime", p.startTime)
                    ELSE EmptyObj)
    IN  IF failed # << >>
        THEN Throw([name |-> failed[2].throws, message |-> <<failed[1]>>])
        ELSE Value([ chainId |-> chainOf(p).id,
                     expiry |-> p.expiry,
                     signer |-> [type |-> "account",
                                 data |-> [address |-> sessionAccountAddress]],
                     permission |-> [type |-> p.permissionType, data |-> data],
                     isAdjustmentAllowed |-> Coalesce(p, "isAdjustmentAllowed", TRUE) ])

\* the methods of a wallet client built by createWalletClientWithPermissions:
\* src/providers/wallet-client.ts 24-26
CreatedClient == [methods |-> {"requestAddresses", "requestExecutionPermissions"}]

\* resolveProvider and createWalletClientWithPermissions,
\* src/providers/wallet-client.ts 12-33: Throw(the error) or Value(the client)
createWalletClientWithPermissions(o, windowEthereum) ==
    IF ~(Has(o, "providerConfig") /\ Has(o.providerConfig, "provider")) /\ ~windowEthereum
    THEN Throw([ name |-> "MissingBrowserProviderError",
                 message |-> <<"No EIP-1193 provider found. Pass provider in config or ensure window.ethereum is available.">> ])
    ELSE IF "requestExecutionPermissions" \notin CreatedClient.methods
    THEN Throw([ name |-> "MissingRequestExecutionPermissionsError",
                 message |-> <<"Wallet client does not expose requestExecutionPermissions. Ensure erc7715 middleware is enabled.">> ])
    ELSE Value(CreatedClient)

\* lines 297-303: the error the catch block hands to onError and re-throws
permissionCaught(e) ==
    IF HasCode4001(e) THEN UserRejectedError(<<"User rejected the permission request.">>)
    ELSE e

\* a faulty variant of permissionResult: the context field of the older
\* response format is not read
permissionResult_NoLegacy(granted, req, user, sessionAccount) ==
    Opt(IsObject(granted) /\ Has(granted, "permissionsContext"),
        "permissionContext", granted.permissionsContext)
    @@ Opt(IsObject(granted) /\ Has(granted, "signerMeta")
              /\ Has(granted.signerMeta, "delegationManager"),
           "delegationManager", granted.signerMeta.delegationManager)
    @@ [ request |-> req, response |-> granted, userAddress |-> user,
         sessionAccount |-> sessionAccount ]

\* lines 288-295: the value returned; an undefined property is an absent key
permissionResult(granted, req, user, sessionAccount) ==
    Opt(IsObject(granted) /\ (Has(granted, "permissionsContext") \/ Has(granted, "context")),
        "permissionContext",
        IF Has(granted, "permissionsContext") THEN granted.permissionsContext
        ELSE granted.context)
    @@ Opt(IsObject(granted) /\ Has(granted, "signerMeta")
              /\ Has(granted.signerMeta, "delegationManager"),
           "delegationManager", granted.signerMeta.delegationManager)
    @@ [ request |-> req, response |-> granted, userAddress |-> user,
         sessionAccount |-> sessionAccount ]

\* ---- inputs of requestAdvancedPermission ----

PermissionHookNames == {"beforeBuild", "beforeRequest", "afterRequest", "onError"}

Chains == { [id |-> 1, name |-> "Ethereum"], [id |-> 999, name |-> "Nowhere"] }

\* options.permission: every combination of absent, invalid and valid values
PermissionData ==
    { OptIn("permissionType", pt) @@ OptIn("tokenAddress", ta)
      @@ OptIn("tokenDecimals", td) @@ OptIn("chain", ch)
      @@ OptIn("amount", amt) @@ OptIn("periodDuration", pd)
      @@ OptIn("amountPerSecond", aps) @@ OptIn("initialAmount", ia)
      @@ OptIn("maxAmount", ma) @@ OptIn("expiry", ex) :
        pt \in Maybe(PermissionTypes \cup {"custom"}), ta \in Maybe({"0xT"}),
        td \in Maybe({0}), ch \in Maybe(Chains),
        amt \in Maybe({"0", "1", "abc", "1.0000001"}), pd \in Maybe({3600}),
        aps \in Maybe({"0"}), ia \in Maybe({"-1", "5"}), ma \in Maybe({"0.5"}),
        ex \in Maybe({1800000000}) }

PermissionDataSamples ==
    { [ permissionType |-> "erc20-token-periodic", tokenAddress |-> "0xT" ],
      [ permissionType |-> "native-token-stream", amountPerSecond |-> "0.1",
        initialAmount |-> "1", maxAmount |-> "100", startTime |-> 1750000000,
        justification |-> "Streaming", isAdjustmentAllowed |-> FALSE,
        chain |-> [id |-> 1, name |-> "Ethereum"] ],
      \* values given but falsy: "" and 0
      [ permissionType |-> "native-token-periodic", amount |-> "",
        periodDuration |-> 0, expiry |-> 0, justification |-> "",
        tokenDecimals |-> 0, isAdjustmentAllowed |-> FALSE, startTime |-> 0 ] }

PermissionInvalidSamples ==
    { [ permissionType |-> "erc20-token-periodic" ],
      [ permissionType |-> "native-token-periodic", amount |-> "0" ],
      [ permissionType |-> "native-token-stream", maxAmount |-> "0" ],
      [ permissionType |-> "native-token-periodic",
        chain |-> [id |-> 999, name |-> "Nowhere"] ],
      [ tokenAddress |-> "0xT" ] }

\* a wallet client the caller supplies: the methods it exposes
SuppliedClients ==
    { [methods |-> {"requestAddresses", "requestExecutionPermissions"}],
      [methods |-> {"requestAddresses"}],
      [methods |-> {"requestExecutionPermissions"}] }

\* where the wallet client comes from: supplied by the caller, or created
\* from providerConfig.provider or window.ethereum
ClientSources ==
    { "walletClient" :> c : c \in SuppliedClients }
    \cup { EmptyObj, [providerConfig |-> [provider |-> "provider"]] }

\* the properties that steer the call
PermissionFlows ==
    { [sessionAccountAddress |-> "0xS"]
      @@ OptIn("userAddress", ua) @@ src @@ OptIn("transformRequest", tr)
      @@ Opt(hs # {}, "hooks", HooksObj(hs)) :
        ua \in Maybe({"0xU"}), src \in ClientSources, tr \in Maybe({"function"}),
        hs \in SUBSET PermissionHookNames }

PermissionFlowSamples ==
    { [ sessionAccountAddress |-> "0xS", userAddress |-> "0xU",
        walletClient |-> [methods |-> {"requestAddresses", "requestExecutionPermissions"}] ],
      [ sessionAccountAddress |-> "0xS" ] }

PermissionOptions ==
    { ("permission" :> d) @@ f : d \in PermissionData, f \in PermissionFlowSamples }
    \cup { ("permission" :> d) @@ f :
             d \in PermissionDataSamples \cup PermissionInvalidSamples,
             f \in PermissionFlows }
    \cup PermissionFlows

\* what walletClient.requestAddresses() may resolve to
AddressLists == { << >>, <<"0xU">> }
\* what walletClient.requestExecutionPermissions([request]) may resolve to
Grants ==
    { << >>,
      << [ permissionsContext |-> "0xgranted",
           signerMeta |-> [delegationManager |-> "0xDM"] ] >>,
      << [ context |-> "0xlegacy" ] >> }

\* ---- the steps of requestAdvancedPermission ----

\* lines 256-267: validation, defaults, ensureConfig, the wallet client
requestAdvancedPermission_Call ==
    /\ fn = "idle"
    /\ \E o \in PermissionOptions, now \in CurrentTimes, windowEthereum \in BOOLEAN :
         \* window.ethereum is read only when no wallet client and no provider is passed
         /\ (Has(o, "walletClient") \/ Has(o, "providerConfig")) => ~windowEthereum
         /\ options' = o
         /\ fn' = "requestAdvancedPermission"
         /\ LET defaulted == applyDefaults(o.permission, now)
                created == createWalletClientWithPermissions(o, windowEthereum)
            IN  IF ~Has(o, "permission")
                THEN /\ outcome' = Raised(InvalidPermissionConfigError(
                                              <<"options.permission is required">>))
                     /\ pc' = "done"
                     /\ UNCHANGED <<params, client, log>>
                ELSE IF defaulted.threw
                THEN /\ outcome' = Raised(defaulted.error)
                     /\ pc' = "done"
                     /\ UNCHANGED <<params, client, log>>
                ELSE IF ensureConfig(defaulted.value) # NoError
                THEN /\ outcome' = Raised(ensureConfig(defaulted.value))
                     /\ pc' = "done"
                     /\ UNCHANGED <<params, client, log>>
                ELSE IF Has(o, "walletClient")
                THEN /\ params' = defaulted.value
                     /\ client' = o.walletClient
                     /\ pc' = "addresses"
                     /\ UNCHANGED <<outcome, log>>
                ELSE /\ params' = defaulted.value
                     /\ log' = Append(log, Call("createWalletClient",
                                   Opt(Has(o, "providerConfig"), "config", o.providerConfig)))
                     /\ IF created.threw
                        THEN /\ outcome' = Raised(created.error)
                             /\ pc' = "done"
                             /\ UNCHANGED client
                        ELSE /\ client' = created.value
                             /\ pc' = "addresses"
                             /\ UNCHANGED outcome
    /\ UNCHANGED <<request, tx, result, error, userAddress>>

\* line 270: options.userAddress ? [options.userAddress]
\*                               : await walletClient.requestAddresses()
requestAdvancedPermission_Addresses ==
    /\ fn = "requestAdvancedPermission" /\ pc = "addresses"
    /\ IF TruthyStr(options, "userAddress")
       THEN /\ userAddress' = options.userAddress
            /\ pc' = "build"
            /\ UNCHANGED <<outcome, log>>
       ELSE IF "requestAddresses" \notin client.methods
       THEN /\ outcome' = Raised([ name |-> "TypeError",
                  message |-> <<"walletClient.requestAddresses is not a function">> ])
            /\ pc' = "done"
            /\ UNCHANGED <<userAddress, log>>
       ELSE /\ log' = Append(log, Call("requestAddresses", EmptyObj))
            /\ pc' = "requestAddresses_wait"
            /\ UNCHANGED <<userAddress, outcome>>
    /\ UNCHANGED <<fn, options, request, tx, result, error, client, params>>

\* lines 270-274: the addresses arrive; addresses[0] must be set
requestAdvancedPermission_AddressesSettle ==
    /\ fn = "requestAdvancedPermission" /\ pc = "requestAddresses_wait"
    /\ \/ \E addresses \in AddressLists :
            /\ log' = Append(log, Settle("requestAddresses", "resolve", [list |-> addresses]))
            /\ IF Len(addresses) = 0 \/ addresses[1] = ""
               THEN /\ outcome' = Raised(InvalidPermissionConfigError(
                                             <<"No connected account found.">>))
                    /\ pc' = "done"
                    /\ UNCHANGED userAddress
               ELSE /\ userAddress' = addresses[1]
                    /\ pc' = "build"
                    /\ UNCHANGED outcome
       \/ \E e \in ThrownErrors :
            /\ log' = Append(log, Settle("requestAddresses", "reject", e))
            /\ outcome' = Raised(e)
            /\ pc' = "done"
            /\ UNCHANGED userAddress
    /\ UNCHANGED <<fn, options, request, tx, result, error, client, params>>

\* lines 276-277: the session account and the base request
requestAdvancedPermission_Build ==
    /\ fn = "requestAdvancedPermission" /\ pc = "build"
    /\ LET sessionAccount == createSessionAccountFromAddress(options.sessionAccountAddress)
           built == buildBaseRequest(params, sessionAccount.address)
       IN  IF built.threw
           THEN outcome' = Raised(built.error) /\ pc' = "done" /\ UNCHANGED request
           ELSE request' = built.value /\ pc' = "beforeBuild" /\ UNCHANGED outcome
    /\ UNCHANGED <<fn, options, tx, result, error, client, params, userAddress, log>>

\* applyHook, lines 199-202 (called at 279 and 281, outside the try block)
requestAdvancedPermission_Hook(stage, next) ==
    /\ fn = "requestAdvancedPermission" /\ pc = stage
    /\ IF Has(HooksOf(options), stage)
       THEN /\ log' = Append(log, Call(stage, request))
            /\ pc' = stage \o "_wait"
       ELSE /\ pc' = next
            /\ UNCHANGED log
    /\ UNCHANGED <<fn, options, request, tx, result, error, client, params, userAddress, outcome>>

\* the hook's promise settles: result ?? payload, or the rejection leaves the call
requestAdvancedPermission_HookSettle(stage, next) ==
    /\ fn = "requestAdvancedPermission" /\ pc = stage \o "_wait"
    /\ \/ \E v \in HookReturns :
            /\ request' = applyHookResult(v, request)
            /\ log' = Append(log, Settle(stage, "resolve", v))
            /\ pc' = next
            /\ UNCHANGED outcome
       \/ \E e \in HookErrors :
            /\ log' = Append(log, Settle(stage, "reject", e))
            /\ outcome' = Raised(e)
            /\ pc' = "done"
            /\ UNCHANGED request
    /\ UNCHANGED <<fn, options, tx, result, error, client, params, userAddress>>

requestAdvancedPermission_BeforeBuild ==
    requestAdvancedPermission_Hook("beforeBuild", "transformRequest")
requestAdvancedPermission_BeforeBuildSettle ==
    requestAdvancedPermission_HookSettle("beforeBuild", "transformRequest")
requestAdvancedPermission_BeforeRequest ==
    requestAdvancedPermission_Hook("beforeRequest", "request")
requestAdvancedPermission_BeforeRequestSettle ==
    requestAdvancedPermission_HookSettle("beforeRequest", "request")

\* line 280: options.transformRequest ? options.transformRequest(request) : request
requestAdvancedPermission_Transform ==
    /\ fn = "requestAdvancedPermission" /\ pc = "transformRequest"
    /\ IF ~Has(options, "transformRequest")
       THEN pc' = "beforeRequest" /\ UNCHANGED <<request, outcome, log>>
       ELSE \/ \E v \in {Undefined, Replacement, request} :
                 /\ request' = v
                 /\ log' = log \o << Call("transformRequest", request),
                                     Settle("transformRequest", "return", v) >>
                 /\ pc' = "beforeRequest"
                 /\ UNCHANGED outcome
            \/ \E e \in HookErrors :
                 /\ log' = log \o << Call("transformRequest", request),
                                     Settle("transformRequest", "reject", e) >>
                 /\ outcome' = Raised(e)
                 /\ pc' = "done"
                 /\ UNCHANGED request
    /\ UNCHANGED <<fn, options, tx, result, error, client, params, userAddress>>

\* lines 283-285: await walletClient.requestExecutionPermissions?.([request])
requestAdvancedPermission_Request ==
    /\ fn = "requestAdvancedPermission" /\ pc = "request"
    /\ IF "requestExecutionPermissions" \in client.methods
       THEN /\ log' = Append(log, Call("requestExecutionPermissions", [list |-> <<request>>]))
            /\ pc' = "requestExecutionPermissions_wait"
            /\ UNCHANGED result
       ELSE /\ result' = Undefined
            /\ pc' = "afterRequest"
            /\ UNCHANGED log
    /\ UNCHANGED <<fn, options, request, tx, error, client, params, userAddress, outcome>>

\* line 285: granted = response?.[0]
requestAdvancedPermission_RequestSettle ==
    /\ fn = "requestAdvancedPermission" /\ pc = "requestExecutionPermissions_wait"
    /\ \/ \E response \in Grants :
            /\ result' = IF Len(response) = 0 THEN Undefined ELSE response[1]
            /\ log' = Append(log, Settle("requestExecutionPermissions", "resolve",
                                         [list |-> response]))
            /\ pc' = "afterRequest"
            /\ UNCHANGED error
       \/ \E e \in ThrownErrors :
            /\ error' = e
            /\ log' = Append(log, Settle("requestExecutionPermissions", "reject", e))
            /\ pc' = "catch"
            /\ UNCHANGED result
    /\ UNCHANGED <<fn, options, request, tx, client, params, userAddress, outcome>>

\* lines 286-295: await hooks.afterRequest?.(granted); return {...}
requestAdvancedPermission_AfterRequest ==
    /\ fn = "requestAdvancedPermission" /\ pc = "afterRequest"
    /\ IF Has(HooksOf(options), "afterRequest")
       THEN /\ log' = Append(log, Call("afterRequest", result))
            /\ pc' = "afterRequest_wait"
            /\ UNCHANGED outcome
       ELSE /\ outcome' = Returned(permissionResult(result, request, userAddress,
                              createSessionAccountFromAddress(options.sessionAccountAddress)))
            /\ pc' = "done"
            /\ UNCHANGED log
    /\ UNCHANGED <<fn, options, request, tx, result, error, client, params, userAddress>>

requestAdvancedPermission_AfterRequestSettle ==
    /\ fn = "requestAdvancedPermission" /\ pc = "afterRequest_wait"
    /\ \/ \E v \in {Undefined, Replacement} :
            /\ log' = Append(log, Settle("afterRequest", "resolve", v))
            /\ outcome' = Returned(permissionResult(result, request, userAddress,
                              createSessionAccountFromAddress(options.sessionAccountAddress)))
            /\ pc' = "done"
            /\ UNCHANGED error
       \/ \E e \in HookErrors :
            /\ error' = e
            /\ log' = Append(log, Settle("afterRequest", "reject", e))
            /\ pc' = "catch"
            /\ UNCHANGED outcome
    /\ UNCHANGED <<fn, options, request, tx, result, client, params, userAddress>>

\* a faulty variant of requestAdvancedPermission_Catch: the error is re-thrown
\* without being handed to onError
requestAdvancedPermission_Catch_Silent ==
    /\ fn = "requestAdvancedPermission" /\ pc = "catch"
    /\ error' = permissionCaught(error)
    /\ outcome' = Raised(permissionCaught(error))
    /\ pc' = "done"
    /\ UNCHANGED <<fn, options, request, tx, result, client, params, userAddress, log>>

\* lines 296-304: the catch block
requestAdvancedPermission_Catch ==
    /\ fn = "requestAdvancedPermission" /\ pc = "catch"
    /\ error' = permissionCaught(error)
    /\ IF Has(HooksOf(options), "onError")
       THEN /\ log' = Append(log, Call("onError", permissionCaught(error)))
            /\ pc' = "onError_wait"
            /\ UNCHANGED outcome
       ELSE /\ outcome' = Raised(permissionCaught(error))
            /\ pc' = "done"
            /\ UNCHANGED log
    /\ UNCHANGED <<fn, options, request, tx, result, client, params, userAddress>>

requestAdvancedPermission_OnErrorSettle ==
    /\ fn = "requestAdvancedPermission" /\ pc = "onError_wait"
    /\ \/ /\ log' = Append(log, Settle("onError", "resolve", Undefined))
          /\ outcome' = Raised(error)
       \/ \E e \in HookErrors :
            /\ log' = Append(log, Settle("onError", "reject", e))
            /\ outcome' = Raised(e)
    /\ pc' = "done"
    /\ UNCHANGED <<fn, options, request, tx, result, error, client, params, userAddress>>

requestAdvancedPermission ==
    \/ requestAdvancedPermission_Call
    \/ requestAdvancedPermission_Addresses
    \/ requestAdvancedPermission_AddressesSettle
    \/ requestAdvancedPermission_Build
    \/ requestAdvancedPermission_BeforeBuild
    \/ requestAdvancedPermission_BeforeBuildSettle
    \/ requestAdvancedPermission_Transform
    \/ requestAdvancedPermission_BeforeRequest
    \/ requestAdvancedPermission_BeforeRequestSettle
    \/ requestAdvancedPermission_Request
    \/ requestAdvancedPermission_RequestSettle
    \/ requestAdvancedPermission_AfterRequest
    \/ requestAdvancedPermission_AfterRequestSettle
    \/ requestAdvancedPermission_Catch
    \/ requestAdvancedPermission_OnErrorSettle

-----------------------------------------------------------------------------
Init ==
    /\ fn = "idle"
    /\ pc = "idle"
    /\ options = EmptyObj
    /\ request = Undefined
    /\ tx = Undefined
    /\ result = Undefined
    /\ error = NoError
    /\ client = EmptyObj
    /\ params = EmptyObj
    /\ userAddress = ""
    /\ outcome = Pending
    /\ log = <<>>

Next == redeemPermission \/ autoRedeem \/ requestAdvancedPermission

Spec == Init /\ [][Next]_vars

-----------------------------------------------------------------------------
(* ensureConfig on its own: part_003 145-197, applied to every shape of
   resolved configuration, complete or not *)

\* configurations of the four permission types with each field absent,
\* invalid or valid
ResolvedConfigs ==
    { [permissionType |-> pt]
      @@ OptIn("tokenAddress", ta) @@ OptIn("tokenDecimals", td)
      @@ OptIn("amount", amt) @@ OptIn("periodDuration", pd)
      @@ OptIn("amountPerSecond", aps) @@ OptIn("initialAmount", ia)
      @@ OptIn("maxAmount", ma) @@ OptIn("startTime", st)
      @@ OptIn("expiry", ex) @@ OptIn("chain", ch) :
        pt \in PermissionTypes, ta \in Maybe({"0xT"}), td \in Maybe({0}),
        amt \in Maybe({"0", "1", "abc"}), pd \in Maybe({3600, -5}),
        aps \in Maybe({"0", "0.1"}), ia \in Maybe({"-1", "1"}),
        ma \in Maybe({"0", "100"}), st \in Maybe({1750000000}),
        ex \in Maybe({1800000000}), ch \in Maybe(Chains) }

InitValidator ==
    /\ fn = "ensureConfig"
    /\ pc = "call"
    /\ params \in ResolvedConfigs
    /\ options = EmptyObj
    /\ request = Undefined
    /\ tx = Undefined
    /\ result = Undefined
    /\ error = NoError
    /\ client = EmptyObj
    /\ userAddress = ""
    /\ outcome = Pending
    /\ log = <<>>

\* ensureConfig(params): it throws the error of a rule, or returns nothing
ensureConfig_Apply ==
    /\ fn = "ensureConfig" /\ pc = "call"
    /\ outcome' = IF ensureConfig(params) = NoError THEN Returned(Undefined)
                  ELSE Raised(ensureConfig(params))
    /\ pc' = "done"
    /\ UNCHANGED <<fn, options, request, tx, result, error, client, params,
                   userAddress, log>>

NextValidator == ensureConfig_Apply

SpecValidator == InitValidator /\ [][NextValidator]_vars

-----------------------------------------------------------------------------
(* Two concurrent calls of redeemPermission and requestAdvancedPermission:
   the steps are those of the single call, every variable indexed by the call *)

\* the callers that invoke the engine concurrently
CallIds == {1, 2}

\* a shared activation record: the variables of every call live in one place,
\* as module-level variables would
Frame_Shared(c) == 1

\* the activation record holding the `let` and `const` variables of call c:
\* both entry points declare request, result, error and the rest inside the
\* function body, so each invocation has its own
Frame(c) == c

\* the calls made concurrently: each strategy, each hook, transformRequest,
\* both ways of resolving the user address
ConcurrentRedeemOptions ==
    { [ permissionsContext |-> "0xctx", recipient |-> "0xR", amount |-> "1",
        permissionType |-> "native-token-periodic", customRedeem |-> "function",
        hooks |-> HooksObj({"beforeBuild", "afterRequest"}) ],
      [ permissionsContext |-> "0xctx", recipient |-> "0xR", amount |-> "1",
        permissionType |-> "erc20-token-periodic", tokenAddress |-> "0xT",
        tokenDecimals |-> 6, chainId |-> 1, backendEndpoint |-> "/api/redeem",
        hooks |-> HooksObj({"beforeRequest", "onError"}) ] }

ConcurrentPermissionOptions ==
    { [ permission |-> [ permissionType |-> "erc20-token-periodic", tokenAddress |-> "0xT" ],
        sessionAccountAddress |-> "0xS",
        walletClient |-> [methods |-> {"requestAddresses", "requestExecutionPermissions"}],
        hooks |-> HooksObj({"beforeBuild", "onError"}) ],
      [ permission |-> [ permissionType |-> "native-token-stream", amountPerSecond |-> "0.1",
                         initialAmount |-> "1", maxAmount |-> "100", startTime |-> 1750000000 ],
        sessionAccountAddress |-> "0xS2", userAddress |-> "0xU",
        walletClient |-> [methods |-> {"requestAddresses", "requestExecutionPermissions"}],
        transformRequest |-> "function",
        hooks |-> HooksObj({"beforeRequest", "afterRequest"}) ] }

Concurrent_redeemPermission_Call(c) ==
    /\ fn[c] = "idle"
    /\ \E o \in ConcurrentRedeemOptions :
         /\ options' = [options EXCEPT ![c] = o]
         /\ fn' = [fn EXCEPT ![c] = "redeemPermission"]
         /\ IF ensureRedeemConfig(o) # NoError
            THEN /\ outcome' = [outcome EXCEPT ![c] = Raised(ensureRedeemConfig(o))]
                 /\ pc' = [pc EXCEPT ![c] = "done"]
                 /\ UNCHANGED request
            ELSE /\ request' = [request EXCEPT ![Frame(c)] = buildRedeemRequest(o)]
                 /\ pc' = [pc EXCEPT ![c] = "beforeBuild"]
                 /\ UNCHANGED outcome
    /\ UNCHANGED <<tx, result, error, client, params, userAddress, log>>

Concurrent_redeemPermission_Hook(c, stage, next) ==
    /\ fn[c] = "redeemPermission" /\ pc[c] = stage
    /\ IF Has(HooksOf(options[c]), stage)
       THEN /\ log' = [log EXCEPT ![c] = Append(log[c], Call(stage, request[Frame(c)]))]
            /\ pc' = [pc EXCEPT ![c] = stage \o "_wait"]
       ELSE /\ pc' = [pc EXCEPT ![c] = next]
            /\ UNCHANGED log
    /\ UNCHANGED <<fn, options, request, tx, result, error, client, params, userAddress, outcome>>

Concurrent_redeemPermission_HookSettle(c, stage, next) ==
    /\ fn[c] = "redeemPermission" /\ pc[c] = stage \o "_wait"
    /\ \/ \E v \in HookReturns :
            /\ request' = [request EXCEPT ![Frame(c)] = applyHookResult(v, request[Frame(c)])]
            /\ log' = [log EXCEPT ![c] = Append(log[c], Settle(stage, "resolve", v))]
            /\ pc' = [pc EXCEPT ![c] = next]
            /\ UNCHANGED error
       \/ \E e \in HookErrors :
            /\ error' = [error EXCEPT ![Frame(c)] = e]
            /\ log' = [log EXCEPT ![c] = Append(log[c], Settle(stage, "reject", e))]
            /\ pc' = [pc EXCEPT ![c] = "catch"]
            /\ UNCHANGED request
    /\ UNCHANGED <<fn, options, tx, result, client, params, userAddress, outcome>>

Concurrent_redeemPermission_Dispatch(c) ==
    /\ fn[c] = "redeemPermission" /\ pc[c] = "dispatch"
    /\ IF SelectStrategy(options[c]) = "custom"
       THEN /\ log' = [log EXCEPT ![c] = Append(log[c], Call("customRedeem", options[c]))]
            /\ pc' = [pc EXCEPT ![c] = "customRedeem_wait"]
            /\ UNCHANGED result
       ELSE IF SelectStrategy(options[c]) = "backend"
       THEN /\ log' = [log EXCEPT ![c] = Append(log[c], Call("fetch",
                [url |-> options[c].backendEndpoint, method |-> "POST", body |-> request[Frame(c)]]))]
            /\ pc' = [pc EXCEPT ![c] = "fetch_wait"]
            /\ UNCHANGED result
       ELSE /\ result' = [result EXCEPT ![Frame(c)] = PreparedResult(request[Frame(c)])]
            /\ pc' = [pc EXCEPT ![c] = "afterRequest"]
            /\ UNCHANGED log
    /\ UNCHANGED <<fn, options, request, tx, error, client, params, userAddress, outcome>>

Concurrent_redeemPermission_CustomSettle(c) ==
    /\ fn[c] = "redeemPermission" /\ pc[c] = "customRedeem_wait"
    /\ \/ \E r \in StrategyResults :
            /\ result' = [result EXCEPT ![Frame(c)] = r]
            /\ log' = [log EXCEPT ![c] = Append(log[c], Settle("customRedeem", "resolve", r))]
            /\ pc' = [pc EXCEPT ![c] = "afterRequest"]
            /\ UNCHANGED error
       \/ \E e \in ThrownErrors :
            /\ error' = [error EXCEPT ![Frame(c)] = e]
            /\ log' = [log EXCEPT ![c] = Append(log[c], Settle("customRedeem", "reject", e))]
            /\ pc' = [pc EXCEPT ![c] = "catch"]
            /\ UNCHANGED result
    /\ UNCHANGED <<fn, options, request, tx, client, params, userAddress, outcome>>

Concurrent_redeemPermission_FetchSettle(c) ==
    /\ fn[c] = "redeemPermission" /\ pc[c] = "fetch_wait"
    /\ \/ \E resp \in Responses :
            /\ log' = [log EXCEPT ![c] = Append(log[c], Settle("fetch", "resolve", resp))]
            /\ IF ~resp.ok
               THEN error' = [error EXCEPT ![Frame(c)] = redeemHttpError(resp)] /\ pc' = [pc EXCEPT ![c] = "catch"] /\ UNCHANGED result
               ELSE IF resp.body = NotJson
               THEN /\ error' = [error EXCEPT ![Frame(c)] = [name |-> "SyntaxError", message |-> <<"Unexpected token">>]]
                    /\ pc' = [pc EXCEPT ![c] = "catch"] /\ UNCHANGED result
               ELSE result' = [result EXCEPT ![Frame(c)] = resp.body] /\ pc' = [pc EXCEPT ![c] = "afterRequest"] /\ UNCHANGED error
       \/ \E e \in ThrownErrors :
            /\ error' = [error EXCEPT ![Frame(c)] = e]
            /\ log' = [log EXCEPT ![c] = Append(log[c], Settle("fetch", "reject", e))]
            /\ pc' = [pc EXCEPT ![c] = "catch"]
            /\ UNCHANGED result
    /\ UNCHANGED <<fn, options, request, tx, client, params, userAddress, outcome>>

Concurrent_redeemPermission_AfterRequest(c) ==
    /\ fn[c] = "redeemPermission" /\ pc[c] = "afterRequest"
    /\ IF Has(HooksOf(options[c]), "afterRequest")
       THEN /\ log' = [log EXCEPT ![c] = Append(log[c], Call("afterRequest", result[Frame(c)]))]
            /\ pc' = [pc EXCEPT ![c] = "afterRequest_wait"]
            /\ UNCHANGED outcome
       ELSE /\ outcome' = [outcome EXCEPT ![c] = Returned(result[Frame(c)])]
            /\ pc' = [pc EXCEPT ![c] = "done"]
            /\ UNCHANGED log
    /\ UNCHANGED <<fn, options, request, tx, result, error, client, params, userAddress>>

Concurrent_redeemPermission_AfterRequestSettle(c) ==
    /\ fn[c] = "redeemPermission" /\ pc[c] = "afterRequest_wait"
    /\ \/ \E v \in {Undefined, Replacement} :
            /\ log' = [log EXCEPT ![c] = Append(log[c], Settle("afterRequest", "resolve", v))]
            /\ outcome' = [outcome EXCEPT ![c] = Returned(result[Frame(c)])]
            /\ pc' = [pc EXCEPT ![c] = "done"]
            /\ UNCHANGED error
       \/ \E e \in HookErrors :
            /\ error' = [error EXCEPT ![Frame(c)] = e]
            /\ log' = [log EXCEPT ![c] = Append(log[c], Settle("afterRequest", "reject", e))]
            /\ pc' = [pc EXCEPT ![c] = "catch"]
            /\ UNCHANGED outcome
    /\ UNCHANGED <<fn, options, request, tx, result, client, params, userAddress>>

Concurrent_redeemPermission_Catch(c) ==
    /\ fn[c] = "redeemPermission" /\ pc[c] = "catch"
    /\ error' = [error EXCEPT ![Frame(c)] = redeemCaught(error[Frame(c)])]
    /\ IF Has(HooksOf(options[c]), "onError")
       THEN /\ log' = [log EXCEPT ![c] = Append(log[c], Call("onError", redeemCaught(error[Frame(c)])))]
            /\ pc' = [pc EXCEPT ![c] = "onError_wait"]
            /\ UNCHANGED outcome
       ELSE /\ outcome' = [outcome EXCEPT ![c] = Raised(redeemCaught(error[Frame(c)]))]
            /\ pc' = [pc EXCEPT ![c] = "done"]
            /\ UNCHANGED log
    /\ UNCHANGED <<fn, options, request, tx, result, client, params, userAddress>>

Concurrent_redeemPermission_OnErrorSettle(c) ==
    /\ fn[c] = "redeemPermission" /\ pc[c] = "onError_wait"
    /\ \/ /\ log' = [log EXCEPT ![c] = Append(log[c], Settle("onError", "resolve", Undefined))]
          /\ outcome' = [outcome EXCEPT ![c] = Raised(error[Frame(c)])]
       \/ \E e \in HookErrors :
            /\ log' = [log EXCEPT ![c] = Append(log[c], Settle("onError", "reject", e))]
            /\ outcome' = [outcome EXCEPT ![c] = Raised(e)]
    /\ pc' = [pc EXCEPT ![c] = "done"]
    /\ UNCHANGED <<fn, options, request, tx, result, error, client, params, userAddress>>

Concurrent_requestAdvancedPermission_Call(c) ==
    /\ fn[c] = "idle"
    /\ \E o \in ConcurrentPermissionOptions, now \in CurrentTimes, windowEthereum \in BOOLEAN :
         \* window.ethereum is read only when no wallet client and no provider is passed
         /\ (Has(o, "walletClient") \/ Has(o, "providerConfig")) => ~windowEthereum
         /\ options' = [options EXCEPT ![c] = o]
         /\ fn' = [fn EXCEPT ![c] = "requestAdvancedPermission"]
         /\ LET defaulted == applyDefaults(o.permission, now)
                created == createWalletClientWithPermissions(o, windowEthereum)
            IN  IF ~Has(o, "permission")
                THEN /\ outcome' = [outcome EXCEPT ![c] = Raised(InvalidPermissionConfigError(
                                              <<"options.permission is required">>))]
                     /\ pc' = [pc EXCEPT ![c] = "done"]
                     /\ UNCHANGED <<params, client, log>>
                ELSE IF defaulted.threw
                THEN /\ outcome' = [outcome EXCEPT ![c] = Raised(defaulted.error)]
                     /\ pc' = [pc EXCEPT ![c] = "done"]
                     /\ UNCHANGED <<params, client, log>>
                ELSE IF ensureConfig(defaulted.value) # NoError
                THEN /\ outcome' = [outcome EXCEPT ![c] = Raised(ensureConfig(defaulted.value))]
                     /\ pc' = [pc EXCEPT ![c] = "done"]
                     /\ UNCHANGED <<params, client, log>>
                ELSE IF Has(o, "walletClient")
                THEN /\ params' = [params EXCEPT ![Frame(c)] = defaulted.value]
                     /\ client' = [client EXCEPT ![Frame(c)] = o.walletClient]
                     /\ pc' = [pc EXCEPT ![c] = "addresses"]
                     /\ UNCHANGED <<outcome, log>>
                ELSE /\ params' = [params EXCEPT ![Frame(c)] = defaulted.value]
                     /\ log' = [log EXCEPT ![c] = Append(log[c], Call("createWalletClient",
                                   Opt(Has(o, "providerConfig"), "config", o.providerConfig)))]
                     /\ IF created.threw
                        THEN /\ outcome' = [outcome EXCEPT ![c] = Raised(created.error)]
                             /\ pc' = [pc EXCEPT ![c] = "done"]
                             /\ UNCHANGED client
                        ELSE /\ client' = [client EXCEPT ![Frame(c)] = created.value]
                             /\ pc' = [pc EXCEPT ![c] = "addresses"]
                             /\ UNCHANGED outcome
    /\ UNCHANGED <<request, tx, result, error, userAddress>>

Concurrent_requestAdvancedPermission_Addresses(c) ==
    /\ fn[c] = "requestAdvancedPermission" /\ pc[c] = "addresses"
    /\ IF TruthyStr(options[c], "userAddress")
       THEN /\ userAddress' = [userAddress EXCEPT ![Frame(c)] = options[c].userAddress]
            /\ pc' = [pc EXCEPT ![c] = "build"]
            /\ UNCHANGED <<outcome, log>>
       ELSE IF "requestAddresses" \notin client[Frame(c)].methods
       THEN /\ outcome' = [outcome EXCEPT ![c] = Raised([ name |-> "TypeError",
                  message |-> <<"walletClient.requestAddresses is not a function">> ])]
            /\ pc' = [pc EXCEPT ![c] = "done"]
            /\ UNCHANGED <<userAddress, log>>
       ELSE /\ log' = [log EXCEPT ![c] = Append(log[c], Call("requestAddresses", EmptyObj))]
            /\ pc' = [pc EXCEPT ![c] = "requestAddresses_wait"]
            /\ UNCHANGED <<userAddress, outcome>>
    /\ UNCHANGED <<fn, options, request, tx, result, error, client, params>>

Concurrent_requestAdvancedPermission_AddressesSettle(c) ==
    /\ fn[c] = "requestAdvancedPermission" /\ pc[c] = "requestAddresses_wait"
    /\ \/ \E addresses \in AddressLists :
            /\ log' = [log EXCEPT ![c] = Append(log[c], Settle("requestAddresses", "resolve", [list |-> addresses]))]
            /\ IF Len(addresses) = 0 \/ addresses[1] = ""
               THEN /\ outcome' = [outcome EXCEPT ![c] = Raised(InvalidPermissionConfigError(
                                             <<"No connected account found.">>))]
                    /\ pc' = [pc EXCEPT ![c] = "done"]
                    /\ UNCHANGED userAddress
               ELSE /\ userAddress' = [userAddress EXCEPT ![Frame(c)] = addresses[1]]
                    /\ pc' = [pc EXCEPT ![c] = "build"]
                    /\ UNCHANGED outcome
       \/ \E e \in ThrownErrors :
            /\ log' = [log EXCEPT ![c] = Append(log[c], Settle("requestAddresses", "reject", e))]
            /\ outcome' = [outcome EXCEPT ![c] = Raised(e)]
            /\ pc' = [pc EXCEPT ![c] = "done"]
            /\ UNCHANGED userAddress
    /\ UNCHANGED <<fn, options, request, tx, result, error, client, params>>

Concurrent_requestAdvancedPermission_Build(c) ==
    /\ fn[c] = "requestAdvancedPermission" /\ pc[c] = "build"
    /\ LET sessionAccount == createSessionAccountFromAddress(options[c].sessionAccountAddress)
           built == buildBaseRequest(params[Frame(c)], sessionAccount.address)
       IN  IF built.threw
           THEN outcome' = [outcome EXCEPT ![c] = Raised(built.error)] /\ pc' = [pc EXCEPT ![c] = "done"] /\ UNCHANGED request
           ELSE request' = [request EXCEPT ![Frame(c)] = built.value] /\ pc' = [pc EXCEPT ![c] = "beforeBuild"] /\ UNCHANGED outcome
    /\ UNCHANGED <<fn, options, tx, result, error, client, params, userAddress, log>>

Concurrent_requestAdvancedPermission_Hook(c, stage, next) ==
    /\ fn[c] = "requestAdvancedPermission" /\ pc[c] = stage
    /\ IF Has(HooksOf(options[c]), stage)
       THEN /\ log' = [log EXCEPT ![c] = Append(log[c], Call(stage, request[Frame(c)]))]
            /\ pc' = [pc EXCEPT ![c] = stage \o "_wait"]
       ELSE /\ pc' = [pc EXCEPT ![c] = next]
            /\ UNCHANGED log
    /\ UNCHANGED <<fn, options, request, tx, result, error, client, params, userAddress, outcome>>

Concurrent_requestAdvancedPermission_HookSettle(c, stage, next) ==
    /\ fn[c] = "requestAdvancedPermission" /\ pc[c] = stage \o "_wait"
    /\ \/ \E v \in HookReturns :
            /\ request' = [request EXCEPT ![Frame(c)] = applyHookResult(v, request[Frame(c)])]
            /\ log' = [log EXCEPT ![c] = Append(log[c], Settle(stage, "resolve", v))]
            /\ pc' = [pc EXCEPT ![c] = next]
            /\ UNCHANGED outcome
       \/ \E e \in HookErrors :
            /\ log' = [log EXCEPT ![c] = Append(log[c], Settle(stage, "reject", e))]
            /\ outcome' = [outcome EXCEPT ![c] = Raised(e)]
            /\ pc' = [pc EXCEPT ![c] = "done"]
            /\ UNCHANGED request
    /\ UNCHANGED <<fn, options, tx, result, error, client, params, userAddress>>

Concurrent_requestAdvancedPermission_Transform(c) ==
    /\ fn[c] = "requestAdvancedPermission" /\ pc[c] = "transformRequest"
    /\ IF ~Has(options[c], "transformRequest")
       THEN pc' = [pc EXCEPT ![c] = "beforeRequest"] /\ UNCHANGED <<request, outcome, log>>
       ELSE \/ \E v \in {Undefined, Replacement, request[Frame(c)]} :
                 /\ request' = [request EXCEPT ![Frame(c)] = v]
                 /\ log' = [log EXCEPT ![c] = log[c] \o << Call("transformRequest", request[Frame(c)]),
                                     Settle("transformRequest", "return", v) >>]
                 /\ pc' = [pc EXCEPT ![c] = "beforeRequest"]
                 /\ UNCHANGED outcome
            \/ \E e \in HookErrors :
                 /\ log' = [log EXCEPT ![c] = log[c] \o << Call("transformRequest", request[Frame(c)]),
                                     Settle("transformRequest", "reject", e) >>]
                 /\ outcome' = [outcome EXCEPT ![c] = Raised(e)]
                 /\ pc' = [pc EXCEPT ![c] = "done"]
                 /\ UNCHANGED request
    /\ UNCHANGED <<fn, options, tx, result, error, client, params, userAddress>>

Concurrent_requestAdvancedPermission_Request(c) ==
    /\ fn[c] = "requestAdvancedPermission" /\ pc[c] = "request"
    /\ IF "requestExecutionPermissions" \in client[Frame(c)].methods
       THEN /\ log' = [log EXCEPT ![c] = Append(log[c], Call("requestExecutionPermissions", [list |-> <<request[Frame(c)]>>]))]
            /\ pc' = [pc EXCEPT ![c] = "requestExecutionPermissions_wait"]
            /\ UNCHANGED result
       ELSE /\ result' = [result EXCEPT ![Frame(c)] = Undefined]
            /\ pc' = [pc EXCEPT ![c] = "afterRequest"]
            /\ UNCHANGED log
    /\ UNCHANGED <<fn, options, request, tx, error, client, params, userAddress, outcome>>

Concurrent_requestAdvancedPermission_RequestSettle(c) ==
    /\ fn[c] = "requestAdvancedPermission" /\ pc[c] = "requestExecutionPermissions_wait"
    /\ \/ \E response \in Grants :
            /\ result' = [result EXCEPT ![Frame(c)] = IF Len(response) = 0 THEN Undefined ELSE response[1]]
            /\ log' = [log EXCEPT ![c] = Append(log[c], Settle("requestExecutionPermissions", "resolve",
                                         [list |-> response]))]
            /\ pc' = [pc EXCEPT ![c] = "afterRequest"]
            /\ UNCHANGED error
       \/ \E e \in ThrownErrors :
            /\ error' = [error EXCEPT ![Frame(c)] = e]
            /\ log' = [log EXCEPT ![c] = Append(log[c], Settle("requestExecutionPermissions", "reject", e))]
            /\ pc' = [pc EXCEPT ![c] = "catch"]
            /\ UNCHANGED result
    /\ UNCHANGED <<fn, options, request, tx, client, params, userAddress, outcome>>

Concurrent_requestAdvancedPermission_AfterRequest(c) ==
    /\ fn[c] = "requestAdvancedPermission" /\ pc[c] = "afterRequest"
    /\ IF Has(HooksOf(options[c]), "afterRequest")
       THEN /\ log' = [log EXCEPT ![c] = Append(log[c], Call("afterRequest", result[Frame(c)]))]
            /\ pc' = [pc EXCEPT ![c] = "afterRequest_wait"]
            /\ UNCHANGED outcome
       ELSE /\ outcome' = [outcome EXCEPT ![c] = Returned(permissionResult(result[Frame(c)], request[Frame(c)], userAddress[Frame(c)],
                              createSessionAccountFromAddress(options[c].sessionAccountAddress)))]
            /\ pc' = [pc EXCEPT ![c] = "done"]
            /\ UNCHANGED log
    /\ UNCHANGED <<fn, options, request, tx, result, error, client, params, userAddress>>

Concurrent_requestAdvancedPermission_AfterRequestSettle(c) ==
    /\ fn[c] = "requestAdvancedPermission" /\ pc[c] = "afterRequest_wait"
    /\ \/ \E v \in {Undefined, Replacement} :
            /\ log' = [log EXCEPT ![c] = Append(log[c], Settle("afterRequest", "resolve", v))]
            /\ outcome' = [outcome EXCEPT ![c] = Returned(permissionResult(result[Frame(c)], request[Frame(c)], userAddress[Frame(c)],
                              createSessionAccountFromAddress(options[c].sessionAccountAddress)))]
            /\ pc' = [pc EXCEPT ![c] = "done"]
            /\ UNCHANGED error
       \/ \E e \in HookErrors :
            /\ error' = [error EXCEPT ![Frame(c)] = e]
            /\ log' = [log EXCEPT ![c] = Append(log[c], Settle("afterRequest", "reject", e))]
            /\ pc' = [pc EXCEPT ![c] = "catch"]
            /\ UNCHANGED outcome
    /\ UNCHANGED <<fn, options, request, tx, result, client, params, userAddress>>

Concurrent_requestAdvancedPermission_Catch(c) ==
    /\ fn[c] = "requestAdvancedPermission" /\ pc[c] = "catch"
    /\ error' = [error EXCEPT ![Frame(c)] = permissionCaught(error[Frame(c)])]
    /\ IF Has(HooksOf(options[c]), "onError")
       THEN /\ log' = [log EXCEPT ![c] = Append(log[c], Call("onError", permissionCaught(error[Frame(c)])))]
            /\ pc' = [pc EXCEPT ![c] = "onError_wait"]
            /\ UNCHANGED outcome
       ELSE /\ outcome' = [outcome EXCEPT ![c] = Raised(permissionCaught(error[Frame(c)]))]
            /\ pc' = [pc EXCEPT ![c] = "done"]
            /\ UNCHANGED log
    /\ UNCHANGED <<fn, options, request, tx, result, client, params, userAddress>>

Concurrent_requestAdvancedPermission_OnErrorSettle(c) ==
    /\ fn[c] = "requestAdvancedPermission" /\ pc[c] = "onError_wait"
    /\ \/ /\ log' = [log EXCEPT ![c] = Append(log[c], Settle("onError", "resolve", Undefined))]
          /\ outcome' = [outcome EXCEPT ![c] = Raised(error[Frame(c)])]
       \/ \E e \in HookErrors :
            /\ log' = [log EXCEPT ![c] = Append(log[c], Settle("onError", "reject", e))]
            /\ outcome' = [outcome EXCEPT ![c] = Raised(e)]
    /\ pc' = [pc EXCEPT ![c] = "done"]
    /\ UNCHANGED <<fn, options, request, tx, result, error, client, params, userAddress>>

InitConcurrent ==
    /\ fn = [c \in CallIds |-> "idle"]
    /\ pc = [c \in CallIds |-> "idle"]
    /\ options = [c \in CallIds |-> EmptyObj]
    /\ request = [c \in CallIds |-> Undefined]
    /\ tx = [c \in CallIds |-> Undefined]
    /\ result = [c \in CallIds |-> Undefined]
    /\ error = [c \in CallIds |-> NoError]
    /\ client = [c \in CallIds |-> EmptyObj]
    /\ params = [c \in CallIds |-> EmptyObj]
    /\ userAddress = [c \in CallIds |-> ""]
    /\ outcome = [c \in CallIds |-> Pending]
    /\ log = [c \in CallIds |-> <<>>]

NextConcurrent ==
    \E c \in CallIds :
        \* redeemPermission
        \/ Concurrent_redeemPermission_Call(c)
        \/ Concurrent_redeemPermission_Hook(c, "beforeBuild", "beforeRequest")
        \/ Concurrent_redeemPermission_HookSettle(c, "beforeBuild", "beforeRequest")
        \/ Concurrent_redeemPermission_Hook(c, "beforeRequest", "dispatch")
        \/ Concurrent_redeemPermission_HookSettle(c, "beforeRequest", "dispatch")
        \/ Concurrent_redeemPermission_Dispatch(c)
        \/ Concurrent_redeemPermission_CustomSettle(c)
        \/ Concurrent_redeemPermission_FetchSettle(c)
        \/ Concurrent_redeemPermission_AfterRequest(c)
        \/ Concurrent_redeemPermission_AfterRequestSettle(c)
        \/ Concurrent_redeemPermission_Catch(c)
        \/ Concurrent_redeemPermission_OnErrorSettle(c)
        \* requestAdvancedPermission
        \/ Concurrent_requestAdvancedPermission_Call(c)
        \/ Concurrent_requestAdvancedPermission_Addresses(c)
        \/ Concurrent_requestAdvancedPermission_AddressesSettle(c)
        \/ Concurrent_requestAdvancedPermission_Build(c)
        \/ Concurrent_requestAdvancedPermission_Hook(c, "beforeBuild", "transformRequest")
        \/ Concurrent_requestAdvancedPermission_HookSettle(c, "beforeBuild", "transformRequest")
        \/ Concurrent_requestAdvancedPermission_Transform(c)
        \/ Concurrent_requestAdvancedPermission_Hook(c, "beforeRequest", "request")
        \/ Concurrent_requestAdvancedPermission_HookSettle(c, "beforeRequest", "request")
        \/ Concurrent_requestAdvancedPermission_Request(c)
        \/ Concurrent_requestAdvancedPermission_RequestSettle(c)
        \/ Concurrent_requestAdvancedPermission_AfterRequest(c)
        \/ Concurrent_requestAdvancedPermission_AfterRequestSettle(c)
        \/ Concurrent_requestAdvancedPermission_Catch(c)
        \/ Concurrent_requestAdvancedPermission_OnErrorSettle(c)

SpecConcurrent == InitConcurrent /\ [][NextConcurrent]_vars

-----------------------------------------------------------------------------
(* Properties of redeemPermission *)

\* the settlements of op that are rejections
Rejects(op) == {i \in 1..Len(log) : log[i].op = op /\ log[i].ph = "reject"}
\* the settlements of op that are fulfilments
Resolves(op) == {i \in 1..Len(log) : log[i].op = op /\ log[i].ph = "resolve"}

\* the options break a rule of ensureRedeemConfig
RedeemRuleBroken(o) ==
    \/ ~Has(o, "permissionsContext") \/ o.permissionsContext = ""
    \/ ~Has(o, "recipient") \/ ~StartsWith0x(o.recipient)
    \/ ~Has(o, "amount") \/ o.amount \in {"", "0"}
    \/ ~Has(o, "permissionType") \/ o.permissionType = ""
    \/ /\ o.permissionType = "erc20-token-periodic"
       /\ (~Has(o, "tokenAddress") \/ o.tokenAddress = "" \/ ~Has(o, "tokenDecimals"))
    \/ Has(o, "chainId") /\ o.chainId # 0 /\ o.chainId \notin SUPPORTED_CHAIN_IDS

RedeemDone == fn = "redeemPermission" /\ pc = "done"
RedeemHooks == IF Has(options, "hooks") THEN options.hooks ELSE EmptyObj

\* C1 (as amended): in redeemPermission no call invokes more than one
\* strategy or a strategy more than once; and in every call with valid
\* options whose beforeBuild and beforeRequest hooks do not raise, a supplied
\* customRedeem is invoked exactly once and no HTTP request is made (also
\* when backendEndpoint is supplied), and otherwise a non-empty
\* backendEndpoint receives exactly one POST.
C1_StrategyByPriority ==
    fn = "redeemPermission" =>
      /\ NumCalls("customRedeem") + NumCalls("fetch") <= 1
      /\ ( /\ pc = "done"
           /\ ~RedeemRuleBroken(options)
           /\ Rejects("beforeBuild") = {} /\ Rejects("beforeRequest") = {} )
         => IF Has(options, "customRedeem")
            THEN NumCalls("customRedeem") = 1 /\ NumCalls("fetch") = 0
            ELSE IF Has(options, "backendEndpoint") /\ options.backendEndpoint # ""
            THEN /\ NumCalls("fetch") = 1
                 /\ \A i \in Calls("fetch") :
                      /\ log[i].arg.method = "POST"
                      /\ log[i].arg.url = options.backendEndpoint
            ELSE NumCalls("customRedeem") = 0 /\ NumCalls("fetch") = 0

\* C1 as stated: for every call with valid options a supplied customRedeem is
\* invoked exactly once with no HTTP request, otherwise a supplied
\* backendEndpoint receives exactly one POST, and never more than one strategy
\* is invoked.
C1_AsStated ==
    (RedeemDone /\ ~RedeemRuleBroken(options)) =>
      /\ NumCalls("customRedeem") + NumCalls("fetch") <= 1
      /\ Has(options, "customRedeem") =>
           NumCalls("customRedeem") = 1 /\ NumCalls("fetch") = 0
      /\ ( /\ ~Has(options, "customRedeem")
           /\ Has(options, "backendEndpoint") /\ options.backendEndpoint # "" )
         => NumCalls("fetch") = 1

\* customRedeem and backendEndpoint both supplied: customRedeem ran, once
C1_Witness ==
    /\ RedeemDone
    /\ Has(options, "customRedeem")
    /\ Has(options, "backendEndpoint") /\ options.backendEndpoint # ""
    /\ NumCalls("customRedeem") = 1
    /\ outcome.kind = "returned"

\* the payload a stage leaves: what its hook resolved to, unless that is
\* undefined or null or the hook is not registered
LeftBy(stage, payload) ==
    IF \E i \in Resolves(stage) : log[i].arg \notin {Undefined, Null}
    THEN log[CHOOSE i \in Resolves(stage) : log[i].arg \notin {Undefined, Null}].arg
    ELSE payload

RedeemStepRaised ==
    \E i \in 1..Len(log) :
      /\ log[i].op \in {"beforeBuild", "beforeRequest", "customRedeem", "fetch", "afterRequest"}
      /\ \/ log[i].ph = "reject"
         \/ /\ log[i].op = "fetch" /\ log[i].ph = "resolve"
            /\ (~log[i].arg.ok \/ log[i].arg.body = NotJson)

\* C3: in redeemPermission, once a step after the validation has raised
\* (beforeBuild, beforeRequest, customRedeem, the backend request or
\* afterRequest), the call never returns a result: it ends by raising, and
\* onError, when registered, has been invoked exactly once and has settled
\* before the call ends.
C3_ErrorsFunnelThroughOnError ==
    (fn = "redeemPermission" /\ RedeemStepRaised) =>
      /\ outcome.kind # "returned"
      /\ NumCalls("onError") <= 1
      /\ pc = "done" =>
           /\ outcome.kind = "raised"
           /\ IF Has(RedeemHooks, "onError")
              THEN /\ NumCalls("onError") = 1
                   /\ Cardinality(Settled("onError")) = 1
              ELSE NumCalls("onError") = 0

\* afterRequest raised after a successful strategy; onError ran and the call raised
C3_Witness ==
    /\ RedeemDone
    /\ Rejects("afterRequest") # {}
    /\ Resolves("customRedeem") # {}
    /\ Resolves("onError") # {}
    /\ outcome.kind = "raised"

\* the dispatched strategy raised an error carrying code 4001
StrategyRaised4001 ==
    \E i \in Rejects("customRedeem") \cup Rejects("fetch") :
      Has(log[i].arg, "code") /\ log[i].arg.code = 4001
RedemptionRejected ==
    [name |-> "UserRejectedError", message |-> <<"User rejected the redemption.">>]

\* C4 (as amended): in redeemPermission, when the dispatched strategy raises
\* an error carrying code 4001, onError (when registered) is invoked exactly
\* once, with a UserRejectedError 'User rejected the redemption.', before the
\* call ends; the caller receives that UserRejectedError, unless onError
\* itself raises, and then the caller receives the error onError raised.
C4_RejectionWrapped ==
    (RedeemDone /\ StrategyRaised4001) =>
      /\ outcome.kind = "raised"
      /\ IF Has(RedeemHooks, "onError")
         THEN /\ NumCalls("onError") = 1
              /\ \A i \in Calls("onError") : log[i].arg = RedemptionRejected
              /\ IF Rejects("onError") # {}
                 THEN \A i \in Rejects("onError") : outcome.error = log[i].arg
                 ELSE outcome.error = RedemptionRejected
         ELSE NumCalls("onError") = 0 /\ outcome.error = RedemptionRejected

\* C4 as stated: the caller receives the UserRejectedError, and a registered
\* onError is invoked exactly once with it.
C4_AsStated ==
    (RedeemDone /\ StrategyRaised4001) =>
      /\ outcome = Raised(RedemptionRejected)
      /\ Has(RedeemHooks, "onError") =>
           /\ NumCalls("onError") = 1
           /\ \A i \in Calls("onError") : log[i].arg = RedemptionRejected

\* the backend request was rejected with code 4001 and onError saw the wrapped error
C4_Witness ==
    /\ RedeemDone
    /\ \E i \in Rejects("fetch") : Has(log[i].arg, "code") /\ log[i].arg.code = 4001
    /\ Resolves("onError") # {}
    /\ outcome = Raised(RedemptionRejected)

-----------------------------------------------------------------------------
(* Properties of requestAdvancedPermission *)

PermissionDone == fn = "requestAdvancedPermission" /\ pc = "done"
PermissionHooks == IF Has(options, "hooks") THEN options.hooks ELSE EmptyObj
BothRegistered == Has(PermissionHooks, "afterRequest") /\ Has(PermissionHooks, "onError")

C6_StageErrorsReachOnError ==
    ( /\ PermissionDone
      /\ Has(PermissionHooks, "onError")
      /\ \E op \in {"requestAddresses", "beforeBuild", "transformRequest",
                    "beforeRequest", "requestExecutionPermissions"} : Rejects(op) # {} )
    => NumCalls("onError") = 1

\* the value a resolved hook leaves: its result, unless the result is
\* undefined or null
KeptOrReplaced(res, payload) == IF res \in {Undefined, Null} THEN payload ELSE res
\* the value a resolved hook leaves when only undefined keeps the payload
KeptOnlyOnUndefined(res, payload) == IF res = Undefined THEN payload ELSE res

HookFlows == {"redeemPermission", "requestAdvancedPermission"}
FlowHooks == IF Has(options, "hooks") THEN options.hooks ELSE EmptyObj

\* a step of a beforeBuild or beforeRequest stage, with the rule keep(_, _)
\* for the value a resolved hook leaves
HookStageStep(keep(_, _)) ==
    /\ ( /\ fn \in HookFlows
         /\ pc \in {"beforeBuild", "beforeRequest"}
         /\ ~Has(FlowHooks, pc) )
       => request' = request /\ log' = log
    /\ ( /\ fn \in HookFlows
         /\ pc \in {"beforeBuild", "beforeRequest"}
         /\ Has(FlowHooks, pc) )
       => request' = request /\ log' = Append(log, Call(pc, request))
    /\ ( /\ fn \in HookFlows
         /\ pc \in {"beforeBuild_wait", "beforeRequest_wait"}
         /\ Len(log') = Len(log) + 1
         /\ log'[Len(log')].ph = "resolve" )
       => request' = keep(log'[Len(log')].arg, request)

\* C7 (as amended): in the beforeBuild and beforeRequest stages of
\* requestAdvancedPermission and redeemPermission, with no callback registered
\* the payload passes on unchanged; a registered callback is invoked with the
\* payload, and when it returns undefined or null the payload is unchanged,
\* and when it returns any other value (0 included) that value is the payload
\* of the next stage.
C7_HookReplacesPayload == [][HookStageStep(KeptOrReplaced)]_vars

\* C7 as stated: only undefined keeps the payload; any other value returned,
\* null included, is the payload of the next stage.
C7_AsStated == [][HookStageStep(KeptOnlyOnUndefined)]_vars

\* a hook resolved to 0 and 0 is the payload now
C7_Witness ==
    /\ fn = "requestAdvancedPermission"
    /\ pc = "transformRequest"
    /\ Resolves("beforeBuild") # {}
    /\ \A i \in Resolves("beforeBuild") : log[i].arg = Zero
    /\ request = Zero

\* C8: in every entry point, when a call raises a configuration error, no
\* wallet method (requestAddresses, requestExecutionPermissions,
\* sendTransaction) was called and no HTTP request was made earlier in the call.
C8_ConfigErrorBeforeExternalCall ==
    ( /\ pc = "done"
      /\ outcome.kind = "raised"
      /\ outcome.error.name = "InvalidPermissionConfigError" )
    => \A op \in {"requestAddresses", "requestExecutionPermissions",
                  "sendTransaction", "fetch"} : NumCalls(op) = 0

\* the options break a rule of autoRedeem's validation
AutoRuleBroken(o) ==
    \/ ~Has(o, "permissionsContext") \/ o.permissionsContext = ""
    \/ ~Has(o, "recipient") \/ ~StartsWith0x(o.recipient)
    \/ ~Has(o, "amount") \/ o.amount \in {"", "0"}

\* C9: in redeemPermission and autoRedeem, a call whose options fail the
\* validation (the checks made before anything else) raises a configuration
\* error without invoking a hook or a strategy and without building a
\* request, and no step of either function modifies the options.
C9_Refused ==
    ( \/ fn = "redeemPermission" /\ RedeemRuleBroken(options)
      \/ fn = "autoRedeem" /\ AutoRuleBroken(options) )
    => /\ pc = "done"
       /\ outcome.kind = "raised"
       /\ outcome.error.name = "InvalidPermissionConfigError"
       /\ log = << >>
       /\ request = Undefined /\ tx = Undefined /\ result = Undefined
C9_ValidationFailureHasNoEffect ==
    /\ []C9_Refused
    /\ [][(fn \in {"redeemPermission", "autoRedeem"}) => (options' = options)]_vars

\* autoRedeem refused an amount of zero although every hook and a wallet
\* client were supplied
C9_Witness ==
    /\ fn = "autoRedeem" /\ pc = "done"
    /\ Has(options, "amount") /\ options.amount = "0"
    /\ Has(options, "hooks") /\ DOMAIN options.hooks = AutoHookNames
    /\ Has(options, "walletClient")
    /\ outcome.kind = "raised"
    /\ log = << >>

\* the chain of the permission configuration is not a supported chain
UnsupportedChain ==
    /\ fn = "requestAdvancedPermission"
    /\ Has(options, "permission")
    /\ Has(options.permission, "chain")
    /\ options.permission.chain.id \notin SUPPORTED_CHAIN_IDS

\* the configuration breaks a rule checked before the chain: the permission
\* type, the token address, or an amount that is given and out of range
EarlierRuleBroken(p) ==
    \/ ~Has(p, "permissionType") \/ p.permissionType = ""
    \/ ~Includes(p.permissionType, "periodic") /\ ~Includes(p.permissionType, "stream")
    \/ Includes(p.permissionType, "erc20") /\ (~Has(p, "tokenAddress") \/ p.tokenAddress = "")
    \/ /\ Includes(p.permissionType, "periodic")
       /\ Has(p, "amount") /\ NumberLeqZero(p.amount)
    \/ /\ Includes(p.permissionType, "stream")
       /\ \/ Has(p, "amountPerSecond") /\ NumberLeqZero(p.amountPerSecond)
          \/ Has(p, "initialAmount") /\ NumberLtZero(p.initialAmount)
          \/ Has(p, "maxAmount") /\ NumberLeqZero(p.maxAmount)

MessageNames(e, id) == \E i \in 1..Len(e.message) : e.message[i] = ToString(id)

\* C10 (as amended): in requestAdvancedPermission, for every permission
\* configuration whose chain id is not in the supported-chain set, the call
\* raises a configuration error, no wallet client is created and no wallet
\* method is called; the message names that chain id when the configuration
\* breaks no rule that is checked before the chain.
C10_UnsupportedChainRejected ==
    UnsupportedChain =>
      /\ pc = "done"
      /\ outcome.kind = "raised"
      /\ outcome.error.name = "InvalidPermissionConfigError"
      /\ log = << >>
      /\ client = EmptyObj
      /\ ~EarlierRuleBroken(options.permission) =>
           MessageNames(outcome.error, options.permission.chain.id)

\* C10 as stated: every configuration with an unsupported chain id raises a
\* configuration error whose message names the chain id, and no wallet client
\* is created and no wallet method is called.
C10_AsStated ==
    UnsupportedChain =>
      /\ pc = "done"
      /\ outcome.kind = "raised"
      /\ outcome.error.name = "InvalidPermissionConfigError"
      /\ MessageNames(outcome.error, options.permission.chain.id)
      /\ log = << >>
      /\ client = EmptyObj

\* chain 999 was refused by name although the call would have created a
\* wallet client and asked it for the addresses
C10_Witness ==
    /\ UnsupportedChain
    /\ pc = "done"
    /\ ~Has(options, "walletClient") /\ ~Has(options, "userAddress")
    /\ MessageNames(outcome.error, 999)

\* ---------------------------------------------------------------------------
\* Properties of the permission request builder
\* ---------------------------------------------------------------------------

\* a <= b for two amounts in base units, written as decimal digit strings
\* without a sign and without leading zeros
RECURSIVE DigitsLeq(_, _)
DigitsLeq(a, b) ==
    IF a = "" THEN TRUE
    ELSE IF Char(a, 1) # Char(b, 1) THEN DigitVal(Char(a, 1)) < DigitVal(Char(b, 1))
    ELSE DigitsLeq(SubSeq(a, 2, Len(a)), SubSeq(b, 2, Len(b)))

UnitsLeq(a, b) == Len(a) < Len(b) \/ (Len(a) = Len(b) /\ DigitsLeq(a, b))

\* the request is one the builder made for a stream permission
IsStreamRequest(r) ==
    /\ IsObject(r) /\ Has(r, "permission")
    /\ Includes(r.permission.type, "stream")

\* C11: every stream permission request handed to the wallet's
\* requestExecutionPermissions carries a maxAmount, in base units, that is at
\* least its initialAmount. The builder and the validator never compare the
\* two amounts, so this fails for initialAmount "5" with the default maxAmount.
C11_MaxCoversInitial ==
    \A i \in Calls("requestExecutionPermissions") :
        LET r == log[i].arg.list[1]
        IN  IsStreamRequest(r) =>
                UnitsLeq(r.permission.data.initialAmount, r.permission.data.maxAmount)

\* ---------------------------------------------------------------------------
\* Properties of the amount conversion
\* ---------------------------------------------------------------------------

\* the amount is a non-negative decimal number whose fraction, trailing zeros
\* aside, has at most decimals digits: it has an exact value in base units
Representable(s, decimals) ==
    /\ s # "" /\ ~IsNaN(s) /\ Char(s, 1) \notin {"-", "+"}
    /\ Len(TrimEnd0(SplitDot(s).fraction)) <= decimals
\* that exact value
ExactUnits(s, decimals) ==
    BigIntStr(SplitDot(s).integer
              \o padEnd(TrimEnd0(SplitDot(s).fraction), decimals, "0"))
ConvertedExactly(s, decimals, units) ==
    Representable(s, decimals) /\ units = ExactUnits(s, decimals)

\* the error the unit parser itself raises for a value that is no decimal number
ConverterErrorNames == {"InvalidDecimalNumberError"}

\* the precision buildRedeemCallData converts at
CallDataDecimals ==
    IF autoPermissionType(options) = "erc20-token-periodic"
    THEN Coalesce(options, "tokenDecimals", 6) ELSE 18

\* C12: an amount is converted only when it is exactly representable at the
\* precision, and then to its exact value ("100.50" at 6 is 100500000); an
\* amount with excess fractional digits ("1.0000001" at 6), a negative or a
\* non-numeric amount ends the call with a configuration error. This holds for
\* the request the permission builder has just built and for the transaction
\* buildRedeemCallData has just built. The code rounds instead.
C12_ConversionExactOrRefused ==
    /\ (fn = "requestAdvancedPermission" /\ pc = "beforeBuild"
          /\ Includes(params.permissionType, "periodic")) =>
           ConvertedExactly(params.amount, params.tokenDecimals,
                            request.permission.data.periodAmount)
    /\ (fn = "requestAdvancedPermission" /\ pc = "beforeBuild"
          /\ Includes(params.permissionType, "stream")) =>
           /\ ConvertedExactly(params.amountPerSecond, params.tokenDecimals,
                               request.permission.data.amountPerSecond)
           /\ ConvertedExactly(params.initialAmount, params.tokenDecimals,
                               request.permission.data.initialAmount)
           /\ ConvertedExactly(params.maxAmount, params.tokenDecimals,
                               request.permission.data.maxAmount)
    /\ (fn = "autoRedeem" /\ pc = "wallet_beforeSubmit") =>
           ConvertedExactly(options.amount, CallDataDecimals, tx.data.args[3])
    /\ (pc = "done" /\ outcome.kind = "raised") =>
           outcome.error.name \notin ConverterErrorNames

\* ---------------------------------------------------------------------------
\* Further properties of redeemPermission
\* ---------------------------------------------------------------------------

\* the redemption is for a token permission and names no token address or no
\* token decimals
TokenFieldsMissing ==
    /\ Has(options, "permissionType")
    /\ options.permissionType \in {"erc20-token-periodic", "erc20-token-stream"}
    /\ (~TruthyStr(options, "tokenAddress") \/ ~Has(options, "tokenDecimals"))

\* C13: a redeemPermission call for erc20-token-periodic or erc20-token-stream
\* that lacks tokenAddress or tokenDecimals ends during validation with a
\* configuration error, before any hook or strategy is invoked. The code checks
\* the two fields for erc20-token-periodic only.
C13_TokenFieldsRequired ==
    (fn = "redeemPermission" /\ TokenFieldsMissing) =>
        /\ pc = "done" /\ log = << >>
        /\ outcome.kind = "raised" /\ IsConfigError(outcome.error)

\* ---------------------------------------------------------------------------
\* Properties of the backend path
\* ---------------------------------------------------------------------------

\* the fields of a JSON error body that are read for the error text
ErrorTextFields == <<"error", "message", "details">>
\* the text the error of a response that is not ok carries: the first field
\* present (and not empty) in the JSON body, otherwise the status line
BackendErrorText(resp) ==
    IF resp.body # NotJson /\ \E i \in 1..3 : TruthyStr(resp.body, ErrorTextFields[i])
    THEN <<FirstTruthy(resp.body, ErrorTextFields, "")>>
    ELSE <<"HTTP ", ToString(resp.status), ": ", resp.statusText>>

\* the backend answered with a status outside 2xx
BackendRefusals == {i \in Resolves("fetch") : ~log[i].arg.ok}

\* C14: on the backend path of redeemPermission and of autoRedeem, after a
\* response that is not ok the error carries the first present of the JSON
\* fields error, message, details, otherwise "HTTP <status>: <statusText>";
\* neither afterRequest nor afterSubmit is invoked, and a registered onError
\* is invoked exactly once, with that error. autoRedeem does not read details
\* and leaves the status text out, and both fall back to a fixed text for a
\* JSON body without these fields.
C14_BackendErrorText ==
    \A i \in BackendRefusals :
      (fn \in {"redeemPermission", "autoRedeem"}) =>
        /\ NumCalls("afterRequest") = 0 /\ NumCalls("afterSubmit") = 0
        /\ pc \in {"catch", "onError_wait"} =>
               error.message = BackendErrorText(log[i].arg)
        /\ NumCalls("onError") <= 1
        /\ \A j \in Calls("onError") : log[j].arg.message = BackendErrorText(log[i].arg)
        /\ (pc = "done" /\ Has(HooksOf(options), "onError")) => NumCalls("onError") = 1

\* ---------------------------------------------------------------------------
\* Strategy transparency of redeemPermission
\* ---------------------------------------------------------------------------

\* the log entries at which a strategy delivered a result: customRedeem
\* fulfilled, or the backend answered 2xx with a JSON body
StrategyDeliveries ==
    Resolves("customRedeem")
    \cup {i \in Resolves("fetch") : log[i].arg.ok /\ log[i].arg.body # NotJson}
\* the result delivered there
Delivered(i) == IF log[i].op = "customRedeem" THEN log[i].arg ELSE log[i].arg.body

\* C15: in redeemPermission the result R of the strategy is treated alike
\* whether customRedeem resolved to R or the backend answered 2xx with JSON
\* body R: a registered afterRequest is invoked exactly once, with R, and the
\* call returns R unless afterRequest raises. Two calls with the same
\* parameters and hooks, one per strategy, therefore return equal results.
C15_StrategyTransparency ==
    \A i \in StrategyDeliveries :
      (fn = "redeemPermission") =>
        /\ NumCalls("afterRequest") <= 1
        /\ \A j \in Calls("afterRequest") : log[j].arg = Delivered(i)
        /\ outcome.kind = "returned" => outcome.value = Delivered(i)
        /\ pc = "done" =>
             /\ Has(RedeemHooks, "afterRequest") => NumCalls("afterRequest") = 1
             /\ Rejects("afterRequest") = {} => outcome.kind = "returned"

\* the backend answered 2xx; afterRequest saw the body and the call returned it
C15_Witness ==
    /\ RedeemDone
    /\ \E i \in Resolves("fetch") :
         /\ log[i].arg.ok
         /\ outcome = Returned(log[i].arg.body)
         /\ \E j \in Calls("afterRequest") : j > i /\ log[j].arg = log[i].arg.body

\* ---------------------------------------------------------------------------
\* The single wallet request of requestAdvancedPermission
\* ---------------------------------------------------------------------------

\* the base request of the call, as the builder makes it from the resolved
\* configuration
BuilderOutput ==
    buildBaseRequest(params,
        createSessionAccountFromAddress(options.sessionAccountAddress).address).value
\* what transformRequest leaves of the payload
LeftByTransform(payload) ==
    IF \E i \in 1..Len(log) : log[i].op = "transformRequest" /\ log[i].ph = "return"
    THEN log[CHOOSE i \in 1..Len(log) :
                 log[i].op = "transformRequest" /\ log[i].ph = "return"].arg
    ELSE payload
AfterBeforeBuild == LeftBy("beforeBuild", BuilderOutput)
AfterTransform == LeftByTransform(AfterBeforeBuild)
AfterBeforeRequest == LeftBy("beforeRequest", AfterTransform)

\* the stages of the pipeline, in order
PipelineStages ==
    <<"beforeBuild", "transformRequest", "beforeRequest", "requestExecutionPermissions">>
\* every stage that was entered had settled before a later stage was entered
StagesInOrder ==
    \A a, b \in 1..Len(PipelineStages) :
      a < b =>
        \A i \in Calls(PipelineStages[a]), j \in Calls(PipelineStages[b]) :
          \E s \in Settled(PipelineStages[a]) : i < s /\ s < j

\* the permission context of the first element of the wallet's response
ContextOf(granted) ==
    IF Has(granted, "permissionsContext") THEN granted.permissionsContext
    ELSE granted.context

Resolving == fn = "requestAdvancedPermission" /\ pc = "addresses"
Given == options.permission

\* field k of the resolved configuration is the caller's value when taken
\* counts the field as supplied, and dflt otherwise
ResolvedAs(k, taken, dflt) == params[k] = IF taken THEN Given[k] ELSE dflt
\* field k passes through untouched: present exactly when the caller gave it
PassedThrough(k) == IF Has(Given, k) THEN Has(params, k) /\ params[k] = Given[k]
                    ELSE ~Has(params, k)

\* supplied, and supplied with a value other than "" or 0
SuppliedStr(k) == TruthyStr(Given, k)
SuppliedNum(k) == TruthyNum(Given, k)

\* the resolved configuration, where str(k) and num(k) tell which string and
\* number fields count as supplied
ResolvedBy(str(_), num(_)) ==
    LET native == Includes(Given.permissionType, "native")
    IN  /\ params.permissionType = Given.permissionType
        /\ ResolvedAs("tokenDecimals", Has(Given, "tokenDecimals"),
                      IF native THEN 18 ELSE 6)
        /\ ResolvedAs("isAdjustmentAllowed", Has(Given, "isAdjustmentAllowed"), TRUE)
        /\ \E now \in CurrentTimes :
             ResolvedAs("expiry", num("expiry"), now + 7 * 24 * 60 * 60)
        /\ ResolvedAs("justification", str("justification"),
                      "Permission to execute token transfers")
        /\ PassedThrough("tokenAddress") /\ PassedThrough("chain")
        /\ Includes(Given.permissionType, "periodic") =>
             /\ ResolvedAs("amount", str("amount"), IF native THEN "0.00001" ELSE "1")
             /\ ResolvedAs("periodDuration", num("periodDuration"), 86400)
             /\ PassedThrough("startTime")
        /\ Includes(Given.permissionType, "stream") =>
             /\ ResolvedAs("amountPerSecond", str("amountPerSecond"), "0.00001")
             /\ ResolvedAs("initialAmount", str("initialAmount"), "0.1")
             /\ ResolvedAs("maxAmount", str("maxAmount"), "1")
             /\ \E now \in CurrentTimes : ResolvedAs("startTime", num("startTime"), now)

\* the request built for {permissionType: erc20-token-periodic, tokenAddress}
ScenarioA ==
    ( /\ fn = "requestAdvancedPermission" /\ pc = "beforeBuild"
      /\ Given = [permissionType |-> "erc20-token-periodic", tokenAddress |-> "0xT"] )
    => request.permission.data.periodAmount = "1000000"

\* C17 (as amended): applyDefaults fills every omitted field with its
\* type-specific default and leaves unchanged every supplied value other than
\* an empty string or 0, and also a supplied tokenDecimals 0, a supplied
\* isAdjustmentAllowed false and a periodic startTime; an empty string or 0
\* supplied for amount, periodDuration, amountPerSecond, initialAmount,
\* maxAmount, a stream's startTime, expiry or justification is replaced by the
\* default. For {erc20-token-periodic, tokenAddress} the request built has
\* periodAmount 1000000.
C17_DefaultsFillOmitted ==
    /\ Resolving => ResolvedBy(SuppliedStr, SuppliedNum)
    /\ ScenarioA

\* supplied, whatever the value
HasGiven(k) == Has(Given, k)
\* C17 as stated: every supplied value is left unchanged, whatever it is
C17_AsStated ==
    /\ Resolving => ResolvedBy(HasGiven, HasGiven)
    /\ ScenarioA

\* a periodic configuration given with tokenDecimals 0, isAdjustmentAllowed
\* false, and "" and 0 for other fields: the first two are kept, the others
\* are replaced by the defaults
C17_Witness ==
    /\ Resolving
    /\ Has(Given, "periodDuration") /\ Given.periodDuration = 0
    /\ Has(Given, "justification") /\ Given.justification = ""
    /\ params.periodDuration = 86400
    /\ params.amount = "0.00001"
    /\ params.tokenDecimals = 0 /\ params.isAdjustmentAllowed = FALSE

\* ---------------------------------------------------------------------------
\* Routing of autoRedeem
\* ---------------------------------------------------------------------------

AutoDone == fn = "autoRedeem" /\ pc = "done"
\* the call passed the validation
AutoValid == fn = "autoRedeem" /\ ~AutoRuleBroken(options)
\* a non-empty backendEndpoint is supplied, or no walletClient is
BackendChosen == TruthyStr(options, "backendEndpoint") \/ ~Has(options, "walletClient")
\* backendEndpoint is supplied (possibly empty), or no walletClient is
BackendSupplied == Has(options, "backendEndpoint") \/ ~Has(options, "walletClient")
\* where the POST goes
PostTarget ==
    IF TruthyStr(options, "backendEndpoint") THEN options.backendEndpoint ELSE "/api/redeem"
\* no hook raised before the submission
SubmitHooksPassed == Rejects("beforeBuild") = {} /\ Rejects("beforeSubmit") = {}
\* beforeSubmit left a transaction: it did not resolve its promise to undefined
TransactionLeft ==
    \A i \in 1..Len(log) :
        log[i].op = "beforeSubmit" /\ log[i].ph = "resolve" => log[i].arg # Undefined
\* the call data of the redemption can be built
CallDataBuilds ==
    ~buildRedeemCallData(("permissionType" :> autoPermissionType(options)) @@ options).threw
DelegationManagerRequired ==
    InvalidPermissionConfigError(<<"delegationManager is required for wallet-based redeem">>)

\* at most one submission, of one kind, and to the place the options select
AutoOneSubmission ==
    /\ NumCalls("fetch") <= 1 /\ NumCalls("sendTransaction") <= 1
    /\ NumCalls("fetch") = 0 \/ NumCalls("sendTransaction") = 0
    /\ \A i \in Calls("fetch") :
         log[i].arg.url = PostTarget /\ log[i].arg.method = "POST"
\* the transaction hash returned is the one sendTransaction resolved to
AutoHashReturned ==
    \A i \in Resolves("sendTransaction") :
        /\ outcome.kind = "returned" => outcome.value.transactionHash = log[i].arg.hash
        /\ (pc = "done" /\ Rejects("afterSubmit") = {}) => outcome.kind = "returned"

\* the routing, where backend tells whether the options select the backend path
AutoRouting(backend) ==
    /\ NumCalls("fetch") > 0 => backend
    /\ NumCalls("sendTransaction") > 0 =>
           ~backend /\ TruthyStr(options, "delegationManager")
    /\ (pc = "done" /\ SubmitHooksPassed) =>
         IF backend THEN NumCalls("fetch") = 1
         ELSE IF ~TruthyStr(options, "delegationManager")
         THEN /\ NumCalls("sendTransaction") = 0
              /\ outcome.kind = "raised"
              /\ Rejects("onError") = {} => outcome.error = DelegationManagerRequired
         ELSE (CallDataBuilds /\ TransactionLeft) => NumCalls("sendTransaction") = 1

RedeemRequestLeft ==
    LeftBy("beforeRequest", LeftBy("beforeBuild", buildRedeemRequest(options)))
\* beforeBuild and beforeRequest replace the request: each receives what the
\* stage before it left, and the backend receives what both left
RedeemRequestReplaced ==
    /\ \A i \in Calls("beforeBuild") : log[i].arg = buildRedeemRequest(options)
    /\ \A i \in Calls("beforeRequest") :
         log[i].arg = LeftBy("beforeBuild", buildRedeemRequest(options))
    /\ \A i \in Calls("fetch") : log[i].arg.body = RedeemRequestLeft

\* C19 (as amended): in redeemPermission beforeBuild and beforeRequest may
\* each replace the request by returning a value, and the replaced request is
\* what the next stage and the backend receive; afterRequest only observes:
\* whatever it returns, the call returns the result of the strategy, the very
\* value afterRequest was invoked with.
C19_AfterRequestObservesOnly ==
    (fn = "redeemPermission") =>
      /\ RedeemRequestReplaced
      /\ outcome.kind = "returned" =>
           /\ outcome.value = result
           /\ \A i \in Calls("afterRequest") : outcome.value = log[i].arg

\* C19 as stated: a value returned by afterRequest replaces the result the
\* call returns, and undefined keeps the strategy's result.
C19_AsStated ==
    (fn = "redeemPermission") =>
      /\ RedeemRequestReplaced
      /\ outcome.kind = "returned" => outcome.value = LeftBy("afterRequest", result)

\* afterRequest returned a value and the call returned the backend's result
C19_Witness ==
    /\ RedeemDone
    /\ \E i \in Resolves("afterRequest") : log[i].arg = Replacement
    /\ \E i \in Resolves("beforeRequest") : log[i].arg = Replacement
    /\ \E i \in Calls("fetch") : log[i].arg.body = Replacement
    /\ \E i \in Resolves("fetch") : outcome = Returned(log[i].arg.body)

\* ---------------------------------------------------------------------------
\* Rule order of the config validator
\* ---------------------------------------------------------------------------

\* the rules of ensureConfig by the name their message starts with, in the
\* order of the validator
RuleNames ==
    << "tokenAddress", "tokenDecimals", "amount", "periodDuration",
       "amountPerSecond", "initialAmount", "maxAmount", "startTime", "expiry",
       "Chain" >>
\* a string field is missing or empty; a number field is missing or 0
NoStr(p, k) == ~Has(p, k) \/ p[k] = ""
NoNum(p, k) == ~Has(p, k) \/ p[k] = 0
\* configuration p violates rule n
Violates(p, n) ==
    LET periodic == Includes(p.permissionType, "periodic")
        stream == Includes(p.permissionType, "stream")
    IN  IF n = 1 THEN Includes(p.permissionType, "erc20") /\ NoStr(p, "tokenAddress")
        ELSE IF n = 2 THEN ~Has(p, "tokenDecimals")
        ELSE IF n = 3
        THEN periodic /\ (NoStr(p, "amount") \/ IsZero(p.amount) \/ IsNegative(p.amount))
        ELSE IF n = 4 THEN periodic /\ NoNum(p, "periodDuration")
        ELSE IF n = 5
        THEN stream /\ (NoStr(p, "amountPerSecond") \/ IsZero(p.amountPerSecond)
                          \/ IsNegative(p.amountPerSecond))
        ELSE IF n = 6
        THEN stream /\ (NoStr(p, "initialAmount") \/ IsNegative(p.initialAmount))
        ELSE IF n = 7
        THEN stream /\ (NoStr(p, "maxAmount") \/ IsZero(p.maxAmount)
                          \/ IsNegative(p.maxAmount))
        ELSE IF n = 8 THEN stream /\ NoNum(p, "startTime")
        ELSE IF n = 9 THEN NoNum(p, "expiry")
        ELSE (IF Has(p, "chain") THEN p.chain.id ELSE 11155111) \notin SUPPORTED_CHAIN_IDS
Violated(p) == {n \in 1..Len(RuleNames) : Violates(p, n)}
\* the smallest member of a non-empty set of rule numbers
Earliest(S) == CHOOSE n \in S : \A m \in S : n <= m
\* the message of error e starts with the name of rule n
NamesRule(e, n) ==
    LET text == e.message[1]
        name == RuleNames[n] \o " "
    IN  Len(text) >= Len(name) /\ SubSeq(text, 1, Len(name)) = name

ValidatorDone == fn = "ensureConfig" /\ pc = "done"

PositiveNumber(s) == s # "" /\ ~IsNaN(s) /\ ~IsZero(s) /\ ~IsNegative(s)

\* C21: ensureConfig lets a periodic configuration pass only if its amount is
\* a number greater than zero and its periodDuration is defined and greater
\* than zero; with a non-numeric amount or a negative periodDuration it raises
\* a configuration error. The code compares Number(amount) <= 0, which is
\* false for NaN, and tests periodDuration for truthiness only.
C21_PeriodicRulesEnforced ==
    (ValidatorDone /\ Includes(params.permissionType, "periodic")) =>
        /\ outcome.kind = "returned" =>
             /\ Has(params, "amount") /\ PositiveNumber(params.amount)
             /\ Has(params, "periodDuration") /\ params.periodDuration > 0
        /\ ( \/ Has(params, "amount") /\ IsNaN(params.amount)
             \/ Has(params, "periodDuration") /\ params.periodDuration < 0 )
           => outcome.kind = "raised" /\ IsConfigError(outcome.error)

\* ---------------------------------------------------------------------------
\* The redeem request of redeemPermission
\* ---------------------------------------------------------------------------

\* the request has just been built from the options
RedeemBuilt == fn = "redeemPermission" /\ pc = "beforeBuild"
RequiredRedeemFields == {"permissionsContext", "recipient", "amount", "permissionType"}
OptionalRedeemFields == {"tokenAddress", "tokenDecimals", "sessionAccountAddress", "chainId"}

\* the request holds the required fields and, of the optional ones, exactly
\* those that carried(k) tells, each with the caller's value
RedeemRequestCarries(carried(_)) ==
    /\ DOMAIN request = RequiredRedeemFields \cup {k \in OptionalRedeemFields : carried(k)}
    /\ \A k \in DOMAIN request : request[k] = options[k]

\* the caller supplied the field
RedeemSupplied(k) == Has(options, k)
\* the caller supplied the field, and for every field but tokenDecimals with a
\* value other than "" and 0
RedeemProvided(k) ==
    IF k = "tokenDecimals" THEN Has(options, k)
    ELSE IF k = "chainId" THEN TruthyNum(options, k)
    ELSE TruthyStr(options, k)

\* C22 (as amended): the redeem request built by redeemPermission always
\* holds permissionsContext, recipient, amount and permissionType; it holds
\* tokenDecimals exactly when the caller supplied it (0 included), and each of
\* tokenAddress, sessionAccountAddress and chainId exactly when the caller
\* supplied it with a value other than the empty string or zero; every field
\* present carries the caller's value, and no omitted field appears as a key.
C22_RequestFromSuppliedFields ==
    RedeemBuilt => RedeemRequestCarries(RedeemProvided)

\* C22 as stated: each optional field is present exactly when the caller
\* supplied it, an empty or zero value included.
C22_AsStated ==
    RedeemBuilt => RedeemRequestCarries(RedeemSupplied)

\* chainId 0 and an empty sessionAccountAddress are left out while
\* tokenDecimals 0 is kept
C22_Witness ==
    /\ RedeemBuilt
    /\ Has(options, "chainId") /\ options.chainId = 0
    /\ Has(options, "sessionAccountAddress") /\ options.sessionAccountAddress = ""
    /\ Has(options, "tokenDecimals") /\ options.tokenDecimals = 0
    /\ DOMAIN request = RequiredRedeemFields \cup {"tokenDecimals"}

\* ---------------------------------------------------------------------------
\* The field set of the permission request
\* ---------------------------------------------------------------------------

\* the base request has just been built from the resolved configuration
PermissionBuilt == fn = "requestAdvancedPermission" /\ pc = "beforeBuild"
PeriodicDataFields == {"periodAmount", "periodDuration"}
StreamDataFields == {"amountPerSecond", "initialAmount", "maxAmount"}
\* the fields of permission.data that belong to one shape
ShapeFields == DOMAIN request.permission.data \cap (PeriodicDataFields \cup StreamDataFields)

\* permission.data holds the fields of the shape the type names, and no
\* field of the other shape
ShapeFollowsType ==
    /\ Includes(request.permission.type, "periodic") =>
         /\ ShapeFields = PeriodicDataFields
         /\ Has(request.permission.data, "startTime") => Has(Given, "startTime")
    /\ Includes(request.permission.type, "stream") =>
         /\ ShapeFields = StreamDataFields
         /\ Has(request.permission.data, "startTime")
\* permission.data names a token exactly for the token types
TokenFollowsType ==
    Has(request.permission.data, "tokenAddress")
        <=> Includes(request.permission.type, "erc20")

\* C23: in the permission request built from a validated configuration,
\* permission.data holds periodAmount and periodDuration, no stream amount,
\* and startTime only if supplied, exactly when the type is periodic; it holds
\* amountPerSecond, initialAmount, maxAmount and startTime and no periodic
\* field exactly when the type is stream; and it holds tokenAddress exactly
\* when the type is a token type. The builder copies a tokenAddress supplied
\* with a native type into the request.
C23_FieldsFollowDiscriminant ==
    PermissionBuilt =>
        /\ request.permission.type = Given.permissionType
        /\ ShapeFollowsType
        /\ TokenFollowsType

\* ---------------------------------------------------------------------------
\* The call data of a redemption
\* ---------------------------------------------------------------------------

\* buildRedeemCallData has just returned the transaction tx for the options
CallDataBuilt == fn = "autoRedeem" /\ pc = "wallet_beforeSubmit"
\* the token address and the decimals the call data must carry for type t
ExpectedToken(t) ==
    IF Includes(t, "erc20") THEN options.tokenAddress ELSE zeroAddress
ExpectedDecimals(t) ==
    IF Includes(t, "erc20") THEN Coalesce(options, "tokenDecimals", 6) ELSE 18

\* the call data built for permission type t
CallDataFor(t) ==
    /\ Includes(t, "erc20") => TruthyStr(options, "tokenAddress")
    /\ tx.data.args[5] = ExpectedToken(t)
    /\ tx.data.args[6] = ExpectedDecimals(t)
    /\ tx.data.args[3] = parseUnits(options.amount, ExpectedDecimals(t)).value
    /\ tx.to = options.delegationManager
    /\ tx.value = IF Has(options, "valueWei") THEN options.valueWei ELSE "0"

\* C24: buildRedeemCallData returns call data only if a token type
\* (erc20-token-periodic, erc20-token-stream) comes with a tokenAddress; the
\* call data then carries that address and the amount converted at
\* tokenDecimals, 6 when omitted; for a native type it carries the zero
\* address and the amount converted at 18 decimals; value is zero unless
\* valueWei is supplied, and to is the delegationManager. The code treats
\* erc20-token-stream as a native type.
C24_CallDataByTokenType ==
    CallDataBuilt => CallDataFor(autoPermissionType(options))

-----------------------------------------------------------------------------
(* C25: the stages of one redeemPermission call are strictly ordered *)

\* every invocation of stage a has settled before any invocation of stage b starts
CompletedBefore(a, b) ==
    \A j \in Calls(b) : \A i \in Calls(a) :
        \E k \in Settled(a) : i < k /\ k < j

\* every invocation of the hook has settled
HookCompleted(h) == \A i \in Calls(h) : \E k \in Settled(h) : i < k

StrategyOps == {"customRedeem", "fetch"}

\* C25: in redeemPermission, beforeBuild has settled before beforeRequest is
\* invoked, beforeRequest (and beforeBuild) before customRedeem or the backend
\* request is started, the strategy before afterRequest is invoked; no stage
\* is invoked twice; the call returns only when afterRequest has settled and
\* raises only when onError has settled.
C25_StagesStrictlyOrdered ==
    fn = "redeemPermission" =>
      /\ CompletedBefore("beforeBuild", "beforeRequest")
      /\ \A s \in StrategyOps :
           /\ CompletedBefore("beforeBuild", s)
           /\ CompletedBefore("beforeRequest", s)
           /\ CompletedBefore(s, "afterRequest")
           /\ CompletedBefore(s, "onError")
      /\ CompletedBefore("beforeRequest", "afterRequest")
      /\ CompletedBefore("afterRequest", "onError")
      /\ \A h \in {"beforeBuild", "beforeRequest", "afterRequest", "onError"} \cup StrategyOps :
           NumCalls(h) <= 1
      /\ outcome.kind = "returned" => HookCompleted("afterRequest")
      /\ outcome.kind = "raised" => HookCompleted("onError")

\* a call that went through all four stages with hooks registered and returned
C25_Witness ==
    /\ fn = "redeemPermission" /\ outcome.kind = "returned"
    /\ NumCalls("beforeBuild") = 1 /\ NumCalls("beforeRequest") = 1
    /\ NumCalls("fetch") = 1 /\ NumCalls("afterRequest") = 1

-----------------------------------------------------------------------------
(* C26: two concurrent calls do not affect each other *)

\* in the call log l: the invocations of op, and its fulfilments
CallsOf(l, op) == {i \in 1..Len(l) : l[i].op = op /\ l[i].ph = "call"}
ResolvedOf(l, op) == {i \in 1..Len(l) : l[i].op = op /\ l[i].ph \in {"resolve", "return"}}
ResolvedValue(l, op) == l[CHOOSE i \in ResolvedOf(l, op) : TRUE].arg

\* what a call running alone makes of the payload once the hook has answered
AloneAfterHook(l, stage, payload) ==
    IF ResolvedOf(l, stage) = {} THEN payload
    ELSE applyHookResult(ResolvedValue(l, stage), payload)
AloneAfterTransform(l, payload) ==
    IF ResolvedOf(l, "transformRequest") = {} THEN payload
    ELSE ResolvedValue(l, "transformRequest")

\* the error a settlement raises in the call: a rejection, a failed HTTP
\* response, or a 2xx response whose body is not JSON
FailureOf(entry) ==
    IF entry.ph = "reject" THEN entry.arg
    ELSE IF ~entry.arg.ok THEN redeemHttpError(entry.arg)
    ELSE [name |-> "SyntaxError", message |-> <<"Unexpected token">>]

\* every invocation of op in l carried the value v
Carried(l, op, v) == \A i \in CallsOf(l, op) : l[i].arg = v

\* the payloads, the submitted request and the result of a redeemPermission
\* call with options o are those of the call running alone with the same
\* answers from its hooks and its strategy
RedeemStages(o, l, out, r0, r1, r2, res) ==
    /\ Carried(l, "beforeBuild", r0)
    /\ Carried(l, "beforeRequest", r1)
    /\ Carried(l, "customRedeem", o)
    /\ \A i \in CallsOf(l, "fetch") :
         l[i].arg = [url |-> o.backendEndpoint, method |-> "POST", body |-> r2]
    /\ Carried(l, "afterRequest", res)
    /\ \A i \in CallsOf(l, "onError") : l[i].arg = redeemCaught(FailureOf(l[i - 1]))
    /\ out.kind = "returned" => out.value = res

RedeemStrategyResult(o, l, r2) ==
    IF ResolvedOf(l, "customRedeem") # {} THEN ResolvedValue(l, "customRedeem")
    ELSE IF ResolvedOf(l, "fetch") # {} THEN ResolvedValue(l, "fetch").body
    ELSE PreparedResult(r2)

RedeemAfterBeforeRequest(o, l) ==
    AloneAfterHook(l, "beforeRequest",
        AloneAfterHook(l, "beforeBuild", buildRedeemRequest(o)))

RedeemAsAlone(o, l, out) ==
    l # <<>> =>
      RedeemStages(o, l, out, buildRedeemRequest(o),
          AloneAfterHook(l, "beforeBuild", buildRedeemRequest(o)),
          RedeemAfterBeforeRequest(o, l),
          RedeemStrategyResult(o, l, RedeemAfterBeforeRequest(o, l)))

\* the same for a requestAdvancedPermission call, q0 being the request built
\* from the defaulted permission
PermissionGranted(l) ==
    IF ResolvedOf(l, "requestExecutionPermissions") = {} THEN Undefined
    ELSE IF Len(ResolvedValue(l, "requestExecutionPermissions").list) = 0 THEN Undefined
    ELSE ResolvedValue(l, "requestExecutionPermissions").list[1]

PermissionUser(o, l) ==
    IF TruthyStr(o, "userAddress") THEN o.userAddress
    ELSE IF ResolvedOf(l, "requestAddresses") = {} THEN ""
    ELSE ResolvedValue(l, "requestAddresses").list[1]

PermissionStages(o, l, out, q0, q1, q2, q3) ==
    /\ Carried(l, "beforeBuild", q0)
    /\ Carried(l, "transformRequest", q1)
    /\ Carried(l, "beforeRequest", q2)
    /\ Carried(l, "requestExecutionPermissions", [list |-> <<q3>>])
    /\ Carried(l, "afterRequest", PermissionGranted(l))
    /\ \A i \in CallsOf(l, "onError") : l[i].arg = permissionCaught(FailureOf(l[i - 1]))
    /\ out.kind = "returned" =>
         out.value = permissionResult(PermissionGranted(l), q3, PermissionUser(o, l),
                         createSessionAccountFromAddress(o.sessionAccountAddress))

PermissionPipeline(o, l, out, q0) ==
    PermissionStages(o, l, out, q0,
        AloneAfterHook(l, "beforeBuild", q0),
        AloneAfterTransform(l, AloneAfterHook(l, "beforeBuild", q0)),
        AloneAfterHook(l, "beforeRequest",
            AloneAfterTransform(l, AloneAfterHook(l, "beforeBuild", q0))))

PermissionAsAlone(o, l, out) ==
    (out.kind = "returned"
       \/ \E i \in 1..Len(l) : l[i].op \notin {"createWalletClient", "requestAddresses"}) =>
      \E now \in CurrentTimes :
        PermissionPipeline(o, l, out,
            buildBaseRequest(applyDefaults(o.permission, now).value,
                createSessionAccountFromAddress(o.sessionAccountAddress).address).value)

AsAlone(c) ==
    IF fn[c] = "redeemPermission" THEN RedeemAsAlone(options[c], log[c], outcome[c])
    ELSE IF fn[c] = "requestAdvancedPermission"
    THEN PermissionAsAlone(options[c], log[c], outcome[c])
    ELSE TRUE

\* C26: however two concurrent calls of redeemPermission and
\* requestAdvancedPermission interleave, every hook payload, the submitted
\* request and the returned result of each call are what that call produces
\* alone from its own options and the answers it received, and no step
\* changes the options object of a call.
C26_ConcurrentCallsIndependent ==
    /\ [](\A c \in CallIds : AsAlone(c))
    /\ [][\A c \in CallIds : fn[c] # "idle" => options'[c] = options[c]]_vars

\* both calls are suspended at the same time, each after a hook replaced its
\* request
C26_Witness ==
    /\ fn[1] = "redeemPermission" /\ pc[1] = "fetch_wait"
    /\ fn[2] = "requestAdvancedPermission" /\ pc[2] = "requestExecutionPermissions_wait"
    /\ ResolvedOf(log[1], "beforeRequest") # {}
    /\ ResolvedValue(log[1], "beforeRequest") = Replacement
    /\ ResolvedOf(log[2], "beforeBuild") # {}
    /\ ResolvedValue(log[2], "beforeBuild") = Replacement

-----------------------------------------------------------------------------
(* C27: autoRedeem, the wallet rejects the transaction with code 4001 *)

\* walletClient.sendTransaction was rejected with an error carrying code 4001
SendRejected4001 ==
    /\ fn = "autoRedeem"
    /\ \E i \in Rejects("sendTransaction") : HasCode4001(log[i].arg)

\* C27: when sendTransaction fails with code 4001 in autoRedeem, onError
\* (when registered) is invoked once with a UserRejectedError, and unless
\* onError itself raises, the caller receives a UserRejectedError and not
\* the wallet's error.
C27_AutoRejectionWrapped ==
    (SendRejected4001 /\ pc = "done") =>
      /\ outcome.kind = "raised"
      /\ IF Has(HooksOf(options), "onError")
         THEN /\ NumCalls("onError") = 1
              /\ \A i \in Calls("onError") : log[i].arg.name = "UserRejectedError"
              /\ Resolves("onError") # {} => outcome.error.name = "UserRejectedError"
         ELSE outcome.error.name = "UserRejectedError"

-----------------------------------------------------------------------------
(* C28: what customRedeem is called with *)

\* C28: in redeemPermission customRedeem is invoked with the options object
\* of the call, whatever beforeBuild and beforeRequest returned; what those
\* hooks returned is the body sent to the backend and the redeemRequest of
\* the prepared result.
C28_CustomRedeemReceivesOptions ==
    (fn = "redeemPermission") =>
      /\ \A i \in Calls("customRedeem") :
           /\ log[i].arg = options
           /\ Has(log[i].arg, "customRedeem")
      /\ \A i \in Calls("fetch") : log[i].arg.body = RedeemRequestLeft
      /\ ( /\ outcome.kind = "returned"
           /\ NumCalls("customRedeem") = 0 /\ NumCalls("fetch") = 0 )
         => outcome.value.redeemRequest = RedeemRequestLeft

\* both hooks replaced the request and customRedeem was invoked with the options
C28_Witness ==
    /\ fn = "redeemPermission"
    /\ \E i \in Resolves("beforeBuild") : log[i].arg = Replacement
    /\ \E i \in Resolves("beforeRequest") : log[i].arg = Replacement
    /\ \E i \in Calls("customRedeem") : log[i].arg = options /\ options # Replacement

-----------------------------------------------------------------------------
(* C29: a returned permission result carries the wallet's context *)

\* C29: whenever requestAdvancedPermission returns a result, the wallet's
\* requestExecutionPermissions was invoked exactly once in the call and the
\* result's permissionContext is defined, whichever wallet client was used
\* and whatever the wallet answered.
C29_ResultCarriesContext ==
    (fn = "requestAdvancedPermission" /\ outcome.kind = "returned") =>
      /\ NumCalls("requestExecutionPermissions") = 1
      /\ Has(outcome.value, "permissionContext")
      /\ outcome.value.permissionContext \notin {Undefined, Null}

-----------------------------------------------------------------------------
(* C30: onError after a strategy that completed *)

\* the prepared fallback completed: valid options, no customRedeem and no
\* backendEndpoint, and the call went past both request hooks
PreparedCompleted ==
    /\ ensureRedeemConfig(options) = NoError
    /\ SelectStrategy(options) = "prepared"
    /\ Rejects("beforeBuild") = {} /\ Rejects("beforeRequest") = {}
    /\ pc \in {"afterRequest", "afterRequest_wait", "catch", "onError_wait", "done"}

\* the chosen strategy completed successfully, and its result
RedeemStrategyCompleted ==
    fn = "redeemPermission" /\ (StrategyDeliveries # {} \/ PreparedCompleted)
CompletedResult ==
    IF StrategyDeliveries # {}
    THEN Delivered(CHOOSE i \in StrategyDeliveries : TRUE)
    ELSE PreparedResult(RedeemRequestLeft)

\* C30 (as amended): in a redeemPermission call whose strategy completed
\* successfully, onError is invoked only if afterRequest raised, and then
\* with the error afterRequest raised; afterRequest and onError are both
\* invoked in the same call only in that case; a call whose strategy
\* completed successfully and whose afterRequest did not raise returns the
\* strategy's result.
C30_OnErrorOnlyAfterFailure ==
    /\ RedeemStrategyCompleted =>
         /\ \A i \in Calls("onError") :
              /\ Rejects("afterRequest") # {}
              /\ \A j \in Rejects("afterRequest") : j < i /\ log[i].arg = redeemCaught(log[j].arg)
         /\ (pc = "done" /\ Rejects("afterRequest") = {}) =>
              outcome = Returned(CompletedResult)
         /\ outcome.kind = "returned" => outcome.value = CompletedResult
    /\ (fn = "redeemPermission" /\ Calls("afterRequest") # {} /\ Calls("onError") # {}) =>
         Rejects("afterRequest") # {}

\* C30 as stated: onError is never invoked in a call whose strategy completed
\* successfully, afterRequest and onError are never both invoked, and every
\* call whose strategy completed successfully returns the strategy's result.
C30_AsStated ==
    /\ RedeemStrategyCompleted =>
         /\ Calls("onError") = {}
         /\ pc = "done" => outcome = Returned(CompletedResult)
    /\ fn = "redeemPermission" => (Calls("afterRequest") = {} \/ Calls("onError") = {})

\* the backend answered 2xx, afterRequest raised, onError received that error
\* and the call raised it
C30_Witness ==
    /\ RedeemDone
    /\ \E i \in StrategyDeliveries : log[i].op = "fetch"
    /\ \E j \in Rejects("afterRequest") :
         /\ \E i \in Calls("onError") : log[i].arg = log[j].arg
         /\ outcome = Raised(log[j].arg)

====
